---- MODULE Spec2Model ----
(***************************************************************************)
(* A model of the nenuphar bytecode virtual machine (a Starlark fork):     *)
(*   - the interpreter loop Function.CallInternal with its catch lookup,   *)
(*     the RUNDEFER / DEFEREXIT / CATCHJMP opcodes and the iterator stack; *)
(*   - the hashtable behind dict and set values (freeze, iteration count). *)
(* Two specifications share the module: Spec runs the interpreter on a     *)
(* program drawn from Programs, SpecHT drives hash tables with arbitrary   *)
(* sequences of operations.                                                *)
(*                                                                         *)
(* Code is modelled as the byte sequence the interpreter decodes: an       *)
(* opcode byte is written as the opcode's name, an operand byte as a       *)
(* number (varint, 7 bits per byte).  Program counters are byte offsets    *)
(* starting at 0, as in the Go code.                                       *)
(***************************************************************************)
EXTENDS Integers, Sequences, FiniteSets, TLC

VARIABLES
  prog,          \* index in Programs of the program being executed
  callstack,     \* thread.stack: one frame per active CallInternal, last = innermost
  globals,       \* fn.module.globals
  heap,          \* List objects, by identity
  iters,         \* Iterator objects created by Iterate(), by identity
  steps,         \* thread.Steps (exact up to maxSteps, the only value it is compared to)
  cancelReason,  \* thread.cancelReason ("" is the nil pointer)
  outcome,       \* what the top-level call returned to its caller
  raised,        \* history: the error raised by the last step, and where
  tables,        \* SpecHT: the hash tables
  kiters,        \* SpecHT: the keyIterators handed out by iterate()
  htLast,        \* SpecHT: history of the last hashtable operation
  asm,           \* SpecAsm: the text given to Asm, and what Asm and Dasm returned
  num,           \* SpecInt: the operands of an Int operation, and what it returned
  dex,           \* SpecDefer: the arguments of hasDeferredExecution, and its results
  ld             \* SpecLoad: the cache of a loader, the loads in progress, what it returned

vars == <<prog, callstack, globals, heap, iters, steps, cancelReason, outcome,
          raised, tables, kiters, htLast, asm, num, dex, ld>>

vmvars == <<prog, callstack, globals, heap, iters, steps, cancelReason, outcome, raised>>
htvars == <<tables, kiters, htLast>>
asmvars == <<asm>>
numvars == <<num>>
dexvars == <<dex>>
ldvars == <<ld>>

-----------------------------------------------------------------------------
(* Bounds of the model. *)

\* thread.maxSteps: the step budget of the thread
MaxSteps == 60
\* number of keyIterators a SpecHT behaviour may create
MaxIters == 2
\* keys and values of the hash tables are 1..MaxKey
MaxKey == 2
\* the hash tables that hold each other
MaxTables == 2
\* the code offsets and the descriptors of each kind given to
\* hasDeferredExecution
MaxPc == 2
MaxDefers == 2

\* the loader: modules, and calls of the loader in a run
MaxModules == 2
MaxLoads == 5

-----------------------------------------------------------------------------
(* Values.  Every value is a record [t |-> type name, v |-> payload]. *)

Nil == [t |-> "nil", v |-> 0]            \* Go's nil Value
None == [t |-> "NoneType", v |-> 0]
MkInt(n) == [t |-> "int", v |-> n]
MkStr(s) == [t |-> "string", v |-> s]
MkBool(b) == [t |-> "bool", v |-> b]
MkTuple(s) == [t |-> "tuple", v |-> s]
MkDictRef(id) == [t |-> "dict", v |-> id]
MkListRef(id) == [t |-> "list", v |-> id]
MkFunction(k, fv) == [t |-> "function", v |-> [funcode |-> k, freevars |-> fv]]
MkIterRef(id) == [t |-> "iterator", v |-> id]
MkCell(id) == [t |-> "cell", v |-> id]   \* *cell: heap[id] is the cell, [v]

IsNil(x) == x.t = "nil"

NoErr == ""                              \* Go's nil error

-----------------------------------------------------------------------------
(* Programs.                                                               *)
(* A Funcode carries its code bytes and its catch / defer descriptors      *)
(* (PC0, PC1, StartPC).  The listings of testdata/asm give addresses as    *)
(* instruction indices; the byte offsets below are the offsets of those    *)
(* instructions in the encoded code (an operand below 128 takes one byte). *)

Defer(pc0, pc1, startpc) == [PC0 |-> pc0, PC1 |-> pc1, StartPC |-> startpc]

Funcode(name, maxstack, nparams, locals, catches, defers, code) ==
  [Name |-> name, MaxStack |-> maxstack, NumParams |-> nparams, Locals |-> locals,
   Cells |-> <<>>, Freevars |-> <<>>,
   Catches |-> catches, Defers |-> defers, Code |-> code]

\* Funcs[1] is Program.Toplevel, Funcs[i + 2] is Program.Functions[i].
Program(recursion, nglobals, constants, names, funcs, predeclared, lists) ==
  [Recursion |-> recursion, NGlobals |-> nglobals,
   Globals |-> SubSeq(<<"x", "y", "z">>, 1, nglobals), Constants |-> constants,
   Names |-> names, Funcs |-> funcs, Predeclared |-> predeclared, Lists |-> lists]

NoPredeclared == [n \in {} |-> Nil]

\* testdata/asm: three defers, each incrementing i and storing it in z, y, x
\* (defers: 8 28 1 / 16 28 9 / 24 28 17 as instruction indices).
ProgS2 ==
  Program(FALSE, 3, <<MkInt(0), MkInt(1)>>, <<>>,
    << Funcode("top", 2, 0, <<"i">>, <<>>,
         <<Defer(14, 48, 2), Defer(28, 48, 16), Defer(42, 48, 30)>>,
         <<"JMP", 14, "CONSTANT", 1, "LOCAL", 0, "PLUS", "SETLOCAL", 0, "LOCAL", 0,
           "SETGLOBAL", 2, "DEFEREXIT",
           "JMP", 28, "CONSTANT", 1, "LOCAL", 0, "PLUS", "SETLOCAL", 0, "LOCAL", 0,
           "SETGLOBAL", 1, "DEFEREXIT",
           "JMP", 42, "CONSTANT", 1, "LOCAL", 0, "PLUS", "SETLOCAL", 0, "LOCAL", 0,
           "SETGLOBAL", 0, "DEFEREXIT",
           "CONSTANT", 0, "SETLOCAL", 0, "NONE", "RUNDEFER", "RETURN">>) >>,
    NoPredeclared, <<>>)

\* testdata/asm: top-level catch (catches: 5 8 1) around a call of fn, which throws.
ProgS3 ==
  Program(FALSE, 1, <<MkInt(1), MkStr("a"), MkInt(2)>>, <<>>,
    << Funcode("top", 2, 0, <<>>, <<Defer(8, 14, 2)>>, <<>>,
         <<"JMP", 8, "CONSTANT", 2, "SETGLOBAL", 0, "NONE", "RETURN",
           "MAKETUPLE", 0, "MAKEFUNC", 0, "CALL", 0, "RETURN">>),
       Funcode("fn", 2, 0, <<>>, <<>>, <<>>,
         <<"CONSTANT", 0, "CONSTANT", 1, "PLUS", "RETURN">>) >>,
    NoPredeclared, <<>>)

\* testdata/asm: the catch covers x = fn() only; x + 'a' after it throws.
ProgS4 ==
  Program(FALSE, 1, <<MkInt(1), MkStr("a"), MkInt(2)>>, <<>>,
    << Funcode("top", 2, 0, <<"x">>, <<Defer(8, 14, 2)>>, <<>>,
         <<"JMP", 8, "CONSTANT", 2, "SETGLOBAL", 0, "NONE", "RETURN",
           "MAKETUPLE", 0, "MAKEFUNC", 0, "CALL", 0, "SETLOCAL", 0,
           "LOCAL", 0, "CONSTANT", 1, "PLUS", "NONE", "RETURN">>),
       Funcode("fn", 1, 0, <<>>, <<>>, <<>>, <<"CONSTANT", 0, "RETURN">>) >>,
    NoPredeclared, <<>>)

\* testdata/asm: x = try 1 + "a" (catches: 3 5 1).
ProgTry ==
  Program(FALSE, 1, <<MkInt(1), MkStr("a")>>, <<>>,
    << Funcode("top", 2, 0, <<"x">>, <<Defer(5, 9, 2)>>, <<>>,
         <<"JMP", 5, "NONE", "JMP", 10, "CONSTANT", 0, "CONSTANT", 1, "PLUS",
           "SETLOCAL", 0, "LOCAL", 0, "SETGLOBAL", 0, "NONE", "RETURN">>) >>,
    NoPredeclared, <<>>)

\* Two nested catch blocks, laid out as the proposal lays out deferred blocks
\* (a JMP over each body, CATCHJMP at its exit).  c is the right operand of
\* the addition covered by both catches: a string makes it throw.
ProgNested(c) ==
  Program(FALSE, 2, <<MkInt(1), c, MkInt(2), MkStr("a")>>, <<>>,
    << Funcode("top", 2, 0, <<>>, <<Defer(8, 27, 2), Defer(16, 21, 10)>>, <<>>,
         <<"JMP", 8, "CONSTANT", 2, "SETGLOBAL", 0, "CATCHJMP", 0,
           "JMP", 16, "CONSTANT", 0, "SETGLOBAL", 1, "CATCHJMP", 22,
           "CONSTANT", 0, "CONSTANT", 1, "PLUS", "POP",
           "CONSTANT", 0, "CONSTANT", 3, "PLUS", "RETURN">>) >>,
    NoPredeclared, <<>>)

\* for x in <in>: 1 + x; if x: return x   -- then return None.
ProgIter(in, lists) ==
  Program(FALSE, 0, <<MkInt(1)>>, <<"in">>,
    << Funcode("top", 2, 0, <<"x">>, <<>>, <<>>,
         <<"PREDECLARED", 0, "ITERPUSH", "ITERJMP", 19, "SETLOCAL", 0,
           "CONSTANT", 0, "LOCAL", 0, "PLUS", "POP", "LOCAL", 0, "CJMP", 22,
           "JMP", 3, "ITERPOP", "NONE", "RETURN", "LOCAL", 0, "RETURN">>) >>,
    [n \in {"in"} |-> in], lists)

\* for x in <in>: fn()   -- where fn has no code at all.
ProgIterCall(in, lists) ==
  Program(FALSE, 0, <<>>, <<"in">>,
    << Funcode("top", 2, 0, <<>>, <<>>, <<>>,
         <<"PREDECLARED", 0, "ITERPUSH", "ITERJMP", 15, "POP", "MAKETUPLE", 0,
           "MAKEFUNC", 0, "CALL", 0, "POP", "JMP", 3, "ITERPOP", "NONE", "RETURN">>),
       Funcode("fn", 0, 0, <<>>, <<>>, <<>>, <<>>) >>,
    [n \in {"in"} |-> in], lists)

\* fl.append(1) as a comprehension would emit it, then fl[0] = 1.
ProgFrozen(lists) ==
  Program(FALSE, 0, <<MkInt(1), MkInt(0)>>, <<"fl">>,
    << Funcode("top", 3, 0, <<>>, <<>>, <<>>,
         <<"PREDECLARED", 0, "CONSTANT", 0, "APPEND",
           "PREDECLARED", 0, "CONSTANT", 1, "CONSTANT", 0, "SETINDEX",
           "NONE", "RETURN">>) >>,
    [n \in {"fl"} |-> MkListRef(1)], lists)

\* do defer a = 1 end; b = 1 end; return None   -- the "simple defer" layout of
\* the proposal, the block left by the JMP that RUNDEFER announces.
ProgDeferJmp ==
  Program(FALSE, 2, <<MkInt(1)>>, <<>>,
    << Funcode("top", 1, 0, <<>>, <<>>, <<Defer(7, 12, 2)>>,
         <<"JMP", 7, "CONSTANT", 0, "SETGLOBAL", 0, "DEFEREXIT",
           "CONSTANT", 0, "SETGLOBAL", 1, "RUNDEFER", "JMP", 14,
           "NONE", "RETURN">>) >>,
    NoPredeclared, <<>>)

\* A hand-written listing: the exit opcode of a defer body met in straight-line
\* code, with no deferred action pending.
ProgBare ==
  Program(FALSE, 0, <<>>, <<>>,
    << Funcode("top", 1, 0, <<>>, <<>>, <<>>,
         <<"NOP", "DEFEREXIT", "NONE", "RETURN">>) >>,
    NoPredeclared, <<>>)

\* A hand-written listing: a loop whose ITERJMP and CJMP both follow a
\* RUNDEFER.  ITERJMP yields the next element, CJMP tests it.
ProgRunDefer(in, lists) ==
  Program(FALSE, 0, <<>>, <<"in">>,
    << Funcode("top", 1, 0, <<>>, <<>>, <<>>,
         <<"PREDECLARED", 0, "ITERPUSH", "RUNDEFER", "ITERJMP", 12,
           "RUNDEFER", "CJMP", 3, "NOP", "JMP", 3,
           "ITERPOP", "NONE", "RETURN">>) >>,
    [n \in {"in"} |-> in], lists)

\* top calls f; f calls itself (direct) or g, which calls f: each call makes
\* a new Function value of the callee's Funcode.
ProgRecurse(recursion, direct) ==
  Program(recursion, 0, <<>>, <<>>,
    << Funcode("top", 1, 0, <<>>, <<>>, <<>>,
         <<"MAKETUPLE", 0, "MAKEFUNC", 0, "CALL", 0, "RETURN">>),
       Funcode("f", 1, 0, <<>>, <<>>, <<>>,
         <<"MAKETUPLE", 0, "MAKEFUNC", IF direct THEN 0 ELSE 1, "CALL", 0, "RETURN">>),
       Funcode("g", 1, 0, <<>>, <<>>, <<>>,
         <<"MAKETUPLE", 0, "MAKEFUNC", 0, "CALL", 0, "RETURN">>) >>,
    NoPredeclared, <<>>)

\* Scenario S1, the text program: / function: Top 0 0 0 / code: -- one
\* function with no instruction.
ProgMinimal ==
  Program(FALSE, 0, <<>>, <<>>,
    << Funcode("Top", 0, 0, <<>>, <<>>, <<>>, <<>>) >>,
    NoPredeclared, <<>>)

\* do defer return 2 end; return 1 end   -- the layout of the proposal: a JMP
\* over the defer body, RUNDEFER before the covered RETURN.
ProgDeferReturn ==
  Program(FALSE, 0, <<MkInt(1), MkInt(2)>>, <<>>,
    << Funcode("top", 1, 0, <<>>, <<>>, <<Defer(6, 9, 2)>>,
         <<"JMP", 6, "CONSTANT", 1, "RETURN", "DEFEREXIT",
           "CONSTANT", 0, "RUNDEFER", "RETURN">>) >>,
    NoPredeclared, <<>>)

\* i = 0; do defer d = i end; catch i = 1; c = 1 end; 1 + "a" end; a = 1
\* -- the example of the proposal: the defer is declared first, then the
\* catch, then the covered code throws.  Globals are c, d, a.
ProgDeferCatch ==
  Program(FALSE, 3, <<MkInt(0), MkInt(1), MkStr("a")>>, <<>>,
    << Funcode("top", 2, 0, <<"i">>, <<Defer(23, 31, 13)>>, <<Defer(11, 31, 6)>>,
         <<"CONSTANT", 0, "SETLOCAL", 0, "JMP", 11,
           "LOCAL", 0, "SETGLOBAL", 1, "DEFEREXIT",
           "JMP", 23,
           "CONSTANT", 1, "SETLOCAL", 0, "CONSTANT", 1, "SETGLOBAL", 0, "CATCHJMP", 32,
           "CONSTANT", 1, "CONSTANT", 2, "PLUS", "POP", "RUNDEFER", "JMP", 32,
           "CONSTANT", 1, "SETGLOBAL", 2, "NONE", "RETURN">>) >>,
    NoPredeclared, <<>>)

\* return x, where x was never assigned: x is a local (LOCAL), a local
\* spilled to a cell (LOCALCELL) or a global (GLOBAL).
ProgUnassigned(op) ==
  Program(FALSE, 1, <<>>, <<>>,
    << [Funcode("top", 1, 0, <<"x">>, <<>>, <<>>, <<op, 0, "RETURN">>)
          EXCEPT !.Cells = IF op = "LOCALCELL" THEN <<0>> ELSE <<>>] >>,
    NoPredeclared, <<>>)

\* x is a cell of top, never assigned, and the free variable of fn, which
\* returns it.
ProgFreeCell ==
  Program(FALSE, 0, <<>>, <<>>,
    << [Funcode("top", 1, 0, <<"x">>, <<>>, <<>>,
          <<"LOCAL", 0, "MAKETUPLE", 1, "MAKEFUNC", 0, "CALL", 0, "RETURN">>)
          EXCEPT !.Cells = <<0>>],
       [Funcode("fn", 1, 0, <<>>, <<>>, <<>>, <<"FREECELL", 0, "RETURN">>)
          EXCEPT !.Freevars = <<"x">>] >>,
    NoPredeclared, <<>>)

\* A hand-written listing: THROW, an opcode CallInternal has no case for,
\* under a catch (catches: 4 6 2) whose body returns None.
ProgUnimplemented ==
  Program(FALSE, 0, <<>>, <<>>,
    << Funcode("top", 1, 0, <<>>, <<Defer(4, 6, 2)>>, <<>>,
         <<"JMP", 4, "NONE", "RETURN", "THROW", "NONE", "RETURN">>) >>,
    NoPredeclared, <<>>)

List(elems, frozen) == [elems |-> elems, frozen |-> frozen, itercount |-> 0]

\* f1 = outer(1); f2 = outer(2); return f1(), where
\*   outer(x): x = x + 10; inner = fn() ... end; x = x + 10; return inner
\*   inner():  return (fn() return x end)()
\* x is a cell of outer, a free variable of inner and of the function in it.
ProgCell ==
  Program(FALSE, 0, <<MkInt(1), MkInt(2), MkInt(10)>>, <<>>,
    << Funcode("top", 2, 0, <<"f1", "f2">>, <<>>, <<>>,
         <<"MAKETUPLE", 0, "MAKEFUNC", 0, "CONSTANT", 0, "CALL", 128, 2, "SETLOCAL", 0,
           "MAKETUPLE", 0, "MAKEFUNC", 0, "CONSTANT", 1, "CALL", 128, 2, "SETLOCAL", 1,
           "LOCAL", 0, "CALL", 0, "RETURN">>),
       [Funcode("outer", 3, 1, <<"x">>, <<>>, <<>>,
          <<"LOCALCELL", 0, "CONSTANT", 2, "PLUS", "SETLOCALCELL", 0,
            "LOCAL", 0, "MAKETUPLE", 1, "MAKEFUNC", 1,
            "LOCALCELL", 0, "CONSTANT", 2, "PLUS", "SETLOCALCELL", 0,
            "RETURN">>)
          EXCEPT !.Cells = <<0>>],
       [Funcode("inner", 1, 0, <<>>, <<>>, <<>>,
          <<"FREE", 0, "MAKETUPLE", 1, "MAKEFUNC", 2, "CALL", 0, "RETURN">>)
          EXCEPT !.Freevars = <<"x">>],
       [Funcode("leaf", 1, 0, <<>>, <<>>, <<>>, <<"FREECELL", 0, "RETURN">>)
          EXCEPT !.Freevars = <<"x">>] >>,
    NoPredeclared, <<>>)

\* d = {}; d[1] = 1 (SETDICT); then the entries 2: 2 and k: 3 as a dict
\* display adds them (SETDICTUNIQ); return None.  d is a global.
ProgDict(k) ==
  Program(FALSE, 1, <<MkInt(1), MkInt(2), MkInt(3), k>>, <<>>,
    << Funcode("top", 3, 0, <<>>, <<>>, <<>>,
         <<"MAKEDICT", "SETGLOBAL", 0,
           "GLOBAL", 0, "CONSTANT", 0, "CONSTANT", 0, "SETDICT",
           "GLOBAL", 0, "CONSTANT", 1, "CONSTANT", 1, "SETDICTUNIQ",
           "GLOBAL", 0, "CONSTANT", 3, "CONSTANT", 2, "SETDICTUNIQ",
           "NONE", "RETURN">>) >>,
    NoPredeclared, <<>>)

\* a, b = l; l[0] = 0, the assignment to l[0] being also the body of a
\* catch around the UNPACK (catches: 2 3 6).
ProgUnpack(lists) ==
  Program(FALSE, 0, <<MkInt(0)>>, <<"l">>,
    << Funcode("top", 5, 0, <<>>, <<Defer(2, 3, 6)>>, <<>>,
         <<"PREDECLARED", 0, "UNPACK", 2, "POP", "POP",
           "PREDECLARED", 0, "CONSTANT", 0, "CONSTANT", 0, "SETINDEX",
           "NONE", "RETURN">>) >>,
    [n \in {"l"} |-> MkListRef(1)], lists)

\* A hand-written listing: the "simple defer" layout (defers: 4 5 2) left by
\* the JMP that RUNDEFER announces, to offset 7, where a JMP enters the
\* defer body.
ProgDeferExit ==
  Program(FALSE, 0, <<>>, <<>>,
    << Funcode("top", 1, 0, <<>>, <<>>, <<Defer(4, 5, 2)>>,
         <<"JMP", 4, "NOP", "DEFEREXIT", "RUNDEFER", "JMP", 7, "JMP", 2>>) >>,
    NoPredeclared, <<>>)

Programs ==
  << ProgS2, ProgS3, ProgS4, ProgTry,
     ProgNested(MkStr("a")), ProgNested(MkInt(1)),
     ProgIter(MkListRef(1), <<List(<<MkInt(0), MkInt(0)>>, FALSE)>>),
     ProgIter(MkListRef(1), <<List(<<MkInt(0), MkInt(1)>>, FALSE)>>),
     ProgIter(MkListRef(1), <<List(<<MkInt(0), MkStr("a")>>, TRUE)>>),
     ProgIter(MkInt(5), <<>>),
     ProgIterCall(MkListRef(1), <<List(<<MkInt(0)>>, FALSE)>>),
     ProgFrozen(<<List(<<MkInt(5)>>, TRUE)>>),
     ProgFrozen(<<List(<<MkInt(5)>>, FALSE)>>),
     ProgDeferJmp, ProgBare,
     ProgRunDefer(MkListRef(1), <<List(<<MkInt(0), MkInt(1)>>, FALSE)>>),
     ProgRecurse(FALSE, TRUE), ProgRecurse(FALSE, FALSE), ProgRecurse(TRUE, FALSE),
     ProgMinimal, ProgDeferReturn, ProgDeferCatch,
     ProgUnassigned("LOCAL"), ProgUnassigned("LOCALCELL"), ProgUnassigned("GLOBAL"),
     ProgFreeCell, ProgUnimplemented, ProgDeferExit,
     ProgUnpack(<<List(<<MkInt(1)>>, FALSE)>>),
     ProgUnpack(<<List(<<MkInt(1), MkInt(2)>>, FALSE)>>),
     ProgUnpack(<<List(<<MkInt(1), MkInt(2), MkInt(3)>>, FALSE)>>),
     ProgDict(MkInt(1)), ProgDict(MkInt(3)), ProgCell >>

P == Programs[prog]

-----------------------------------------------------------------------------
(* Pieces of the runtime the interpreter calls. *)

\* compile.Defer.Covers: the covered range is inclusive on both ends
Covers(d, pc) == d.PC0 <= pc /\ pc <= d.PC1

\* opcodes at or above compile.OpcodeArgMin: one varint operand follows
ArgOps ==
  {"JMP", "CJMP", "ITERJMP", "CONSTANT", "MAKETUPLE", "MAKELIST", "MAKEFUNC", "LOAD",
   "SETLOCAL", "SETGLOBAL", "LOCAL", "FREE", "FREECELL", "LOCALCELL", "SETLOCALCELL",
   "GLOBAL", "PREDECLARED", "UNIVERSAL", "ATTR", "SETFIELD", "UNPACK",
   "CALL", "CALL_VAR", "CALL_KW", "CALL_VAR_KW", "CATCHJMP"}

\* fmt %d of a natural number
RECURSIVE Itoa(_)
Itoa(n) ==
  LET Numerals == <<"0", "1", "2", "3", "4", "5", "6", "7", "8", "9">> IN
  IF n < 10 THEN Numerals[n + 1] ELSE Itoa(n \div 10) \o Numerals[(n % 10) + 1]

\* Value.Truth
Truth(x) ==
  CASE x.t = "bool" -> x.v
    [] x.t = "int" -> x.v # 0
    [] x.t = "string" -> x.v # ""
    [] x.t = "tuple" -> Len(x.v) > 0
    [] x.t = "NoneType" -> FALSE
    [] OTHER -> TRUE

\* Binary(syntax.PLUS, x, y): [z, err]
BinaryPlus(x, y) ==
  IF x.t = "int" /\ y.t = "int"
    THEN [z |-> MkInt(x.v + y.v), err |-> NoErr]
    ELSE [z |-> Nil, err |-> "unknown binary op: " \o x.t \o " + " \o y.t]

(* The hashtable of a dict: [m, itercount, frozen]; m maps the keys present *)
(* to their values.                                                        *)
\* a hash table with no entries
EmptyMap == [k \in {} |-> 0]
EmptyTable == [m |-> EmptyMap, itercount |-> 0, frozen |-> FALSE]

\* a check that lets a frozen table be mutated
checkMutableIgnoringFrozen(ht, verb) ==
  IF ht.itercount > 0 THEN "cannot " \o verb \o " hash table during iteration"
  ELSE NoErr

\* a check that lets a table be mutated while it is iterated
checkMutableIgnoringIteration(ht, verb) ==
  IF ht.frozen THEN "cannot " \o verb \o " frozen hash table" ELSE NoErr

checkMutable(ht, verb) ==
  IF ht.frozen THEN "cannot " \o verb \o " frozen hash table"
  ELSE IF ht.itercount > 0 THEN "cannot " \o verb \o " hash table during iteration"
  ELSE NoErr

\* [ht, err]
insert(ht, k, v) ==
  LET err == checkMutable(ht, "insert into") IN
  IF err # NoErr THEN [ht |-> ht, err |-> err]
  ELSE [ht |-> [ht EXCEPT !.m = [x \in DOMAIN ht.m \cup {k} |->
                                    IF x = k THEN v ELSE ht.m[x]]],
        err |-> NoErr]

\* Dict.SetKey on the hashtable of the dict: [ht, err]
SetKey(ht, k, v) ==
  IF k.t \in {"list", "dict"} THEN [ht |-> ht, err |-> "unhashable type: " \o k.t]
  ELSE insert(ht, k, v)

\* List.checkMutable, as hashtable.checkMutable
ListCheckMutable(l, verb) ==
  IF l.frozen THEN "cannot " \o verb \o " frozen list"
  ELSE IF l.itercount > 0 THEN "cannot " \o verb \o " list during iteration"
  ELSE NoErr

\* setIndex(x, y, z) on a list x, an int index y: [heap, err]
SetIndex(h, x, y, z) ==
  IF x.t # "list" THEN [heap |-> h, err |-> x.t \o " value does not support item assignment"]
  ELSE IF y.t # "int" THEN [heap |-> h, err |-> "list index: got " \o y.t \o ", want int"]
  ELSE LET l == h[x.v]
           e == ListCheckMutable(l, "assign to element of") IN
       IF e # NoErr THEN [heap |-> h, err |-> e]
       ELSE IF y.v < 0 \/ y.v >= Len(l.elems)
         THEN [heap |-> h, err |-> "list index out of range"]
       ELSE [heap |-> [h EXCEPT ![x.v].elems[y.v + 1] = z], err |-> NoErr]

\* Iterate(x): a new iterator over a list or a tuple, nil for any other value.
\* A list counts its active iterators unless it is frozen.
Iterable(x) == x.t \in {"list", "tuple"}

IterateMem(m, x) ==
  [m EXCEPT
     !.iters = Append(@, [src |-> x, pos |-> 0, done |-> 0, op |-> "ITERPUSH"]),
     !.heap = IF x.t = "list" /\ ~m.heap[x.v].frozen
                THEN [@ EXCEPT ![x.v].itercount = @ + 1] ELSE @]

\* the elements an iterator walks
IterElems(m, it) == IF it.src.t = "list" THEN m.heap[it.src.v].elems ELSE it.src.v

IterHasNext(m, id) == m.iters[id].pos < Len(IterElems(m, m.iters[id]))

\* Iterator.Done
IterDone(m, id) ==
  LET x == m.iters[id].src IN
  [m EXCEPT
     !.iters[id].done = @ + 1,
     !.heap = IF x.t = "list" /\ ~m.heap[x.v].frozen
                THEN [@ EXCEPT ![x.v].itercount = @ - 1] ELSE @]

\* the deferred function of CallInternal: Done on what is left of iterstack
RECURSIVE DoneAll(_, _)
DoneAll(m, ids) ==
  IF ids = <<>> THEN m ELSE DoneAll(IterDone(m, Head(ids)), Tail(ids))

-----------------------------------------------------------------------------
(* The interpreter: Function.CallInternal. *)

Max(S) == CHOOSE x \in S : \A y \in S : y <= x

FuncodeOf(fr) == P.Funcs[fr.fn.v.funcode]

\* the memory the opcodes act on besides the frame
Mem == [globals |-> globals, heap |-> heap, iters |-> iters]

\* CallInternal up to the dispatch loop: space for locals and stack, pc = 0
\* Spill indicated locals to cells
\* [locals, heap]: each cell is a new object of the heap h
Spill(f, locals, h) ==
  [locals |-> [i \in DOMAIN locals |->
                 IF \E c \in DOMAIN f.Cells : f.Cells[c] = i - 1
                   THEN MkCell(Len(h) + (CHOOSE c \in DOMAIN f.Cells : f.Cells[c] = i - 1))
                   ELSE locals[i]],
   heap |-> h \o [c \in DOMAIN f.Cells |-> [v |-> locals[f.Cells[c] + 1]]]]

NewFrame(fnval, locals) ==
  LET f == P.Funcs[fnval.v.funcode] IN
  [fn |-> fnval, pc |-> 0, frpc |-> 0, sp |-> 0,
   stack |-> [i \in 1..f.MaxStack |-> Nil],
   locals |-> locals,
   iterstack |-> <<>>, deferredStack |-> <<>>,
   runDefer |-> FALSE, inFlightErr |-> NoErr, caughtErr |-> NoErr, result |-> Nil,
   status |-> "loop",
   \* history: the last control transfer made with runDefer set, and how many
   \* times each defer body (by index in Defers) was entered since
   xfer |-> [set |-> FALSE, from |-> 0, to |-> 0],
   entered |-> [i \in 1..Len(f.Defers) |-> 0]]

\* the varint operand starting at byte offset pc (shift s): [arg, pc].  The
\* operands of the programs below stay under 2^14, far from the 32 bits of arg.
RECURSIVE DecodeArg(_, _, _)
DecodeArg(code, pc, s) ==
  LET b == code[pc + 1] IN
  IF b < 128
    THEN [arg |-> b * 2^s, pc |-> pc + 1]
    ELSE LET r == DecodeArg(code, pc + 1, s + 7) IN
         [arg |-> (b % 128) * 2^s + r.arg, pc |-> r.pc]

\* fetch and decode at fr.pc: [op, arg, pc]
Decode(fr) ==
  LET code == FuncodeOf(fr).Code
      op == code[fr.pc + 1] IN
  IF op \in ArgOps
    THEN LET d == DecodeArg(code, fr.pc + 1, 0) IN [op |-> op, arg |-> d.arg, pc |-> d.pc]
    ELSE [op |-> op, arg |-> 0, pc |-> fr.pc + 1]

\* a catch lookup that searches from the first descriptor up
CatchHandlerFirst(f, frpc) ==
  LET S == {i \in 1..Len(f.Catches) : Covers(f.Catches[i], frpc)} IN
  IF S = {} THEN 0 ELSE CHOOSE x \in S : \A y \in S : x <= y

\* the catch lookup after the loop: the index in Catches of the handler for an
\* error raised at frpc, searched from the last descriptor down; 0 if none
CatchHandler(f, frpc) ==
  LET S == {i \in 1..Len(f.Catches) : Covers(f.Catches[i], frpc)} IN
  IF S = {} THEN 0 ELSE Max(S)

\* code after the loop that enters the last catch block without asking
\* whether it covers the pc
AfterLoopAnyCatch(fr, err) ==
  LET f == P.Funcs[fr.fn.v.funcode] IN
  IF err # NoErr /\ Len(f.Catches) > 0
    THEN [fr EXCEPT !.caughtErr = err, !.inFlightErr = NoErr,
                    !.pc = f.Catches[Len(f.Catches)].StartPC, !.status = "loop"]
    ELSE [fr EXCEPT !.inFlightErr = err, !.status = "exit"]

\* the code after the loop: enter the handler and resume, or return
AfterLoop(fr, err) ==
  LET f == FuncodeOf(fr)
      h == CatchHandler(f, fr.frpc) IN
  IF err # NoErr /\ h # 0
    THEN [fr EXCEPT !.caughtErr = err, !.inFlightErr = NoErr,
                    !.pc = f.Catches[h].StartPC, !.status = "loop"]
    ELSE [fr EXCEPT !.inFlightErr = err, !.status = "exit"]

\* hasDeferredExecution(from, to, defr, catch, &pc): [found, pc]
StartPCs(from, to, ds) ==
  {ds[i].StartPC : i \in {j \in 1..Len(ds) : Covers(ds[j], from) /\ ~Covers(ds[j], to)}}

\* hasDeferredExecution with target starting at 0: a body at offset 0 is
\* never found
hasDeferredExecutionAboveZero(from, to, defr, catch, pc) ==
  LET T == (StartPCs(from, to, defr) \cup StartPCs(from, to, catch)) \ {0} IN
  IF T # {} THEN [found |-> TRUE, pc |-> Max(T)] ELSE [found |-> FALSE, pc |-> pc]

hasDeferredExecution(from, to, defr, catch, pc) ==
  LET T == StartPCs(from, to, defr) \cup StartPCs(from, to, catch) IN
  IF T # {} THEN [found |-> TRUE, pc |-> Max(T)] ELSE [found |-> FALSE, pc |-> pc]

\* results of an opcode body
Go(fr, m) == [fr |-> fr, m |-> m, out |-> "next", err |-> NoErr]
Break(fr, m, err) == [fr |-> fr, m |-> m, out |-> "break", err |-> err]
Panic(fr, m) == [fr |-> fr, m |-> m, out |-> "panic", err |-> NoErr]

InStack(fr, i) == 0 <= i /\ i < Len(fr.stack)
Stk(fr, i) == fr.stack[i + 1]
Push(fr, x) == [fr EXCEPT !.stack[fr.sp + 1] = x, !.sp = @ + 1]

\* history kept with a jump / return that finds runDefer set
NoteXfer(fr, to) ==
  IF fr.runDefer
    THEN [fr EXCEPT !.xfer = [set |-> TRUE, from |-> fr.frpc, to |-> to],
                    !.entered = [i \in DOMAIN fr.entered |-> 0]]
    ELSE fr

-----------------------------------------------------------------------------
(* The opcode bodies.  fr is the frame after the decode (fr.frpc is the    *)
(* address of the opcode, fr.pc the address after its operand), m the      *)
(* memory.  An index outside the operand stack, the locals or a table, and *)
(* a failed type assertion, panic.                                         *)

ExecNOP(fr, arg, m) == Go(fr, m)

\* a POP that takes two operands off the stack
ExecPOPTwo(fr, arg, m) == Go([fr EXCEPT !.sp = @ - 2], m)

ExecPOP(fr, arg, m) == Go([fr EXCEPT !.sp = @ - 1], m)

ExecPLUS(fr, arg, m) ==
  IF ~InStack(fr, fr.sp - 1) \/ ~InStack(fr, fr.sp - 2) THEN Panic(fr, m)
  ELSE LET r == BinaryPlus(Stk(fr, fr.sp - 2), Stk(fr, fr.sp - 1))
           fr1 == [fr EXCEPT !.sp = @ - 2] IN
       IF r.err # NoErr THEN Break(fr1, m, r.err) ELSE Go(Push(fr1, r.z), m)

ExecNONE(fr, arg, m) ==
  IF ~InStack(fr, fr.sp) THEN Panic(fr, m) ELSE Go(Push(fr, None), m)

ExecJMP(fr, arg, m) ==
  \* runDefer set: nothing is looked up, the flag is cleared
  Go([NoteXfer(fr, arg) EXCEPT !.runDefer = FALSE, !.pc = arg], m)

ExecCJMP(fr, arg, m) ==
  IF ~InStack(fr, fr.sp - 1) THEN Panic(fr, m)
  ELSE IF Truth(Stk(fr, fr.sp - 1))
    THEN Go([NoteXfer(fr, arg) EXCEPT !.runDefer = FALSE, !.pc = arg, !.sp = @ - 1], m)
    ELSE Go([fr EXCEPT !.sp = @ - 1], m)

ExecRETURN(fr, arg, m) ==
  IF ~InStack(fr, fr.sp - 1) THEN Panic(fr, m)
  ELSE Break([NoteXfer(fr, -1) EXCEPT !.result = Stk(fr, fr.sp - 1), !.runDefer = FALSE],
             m, NoErr)

ExecCONSTANT(fr, arg, m) ==
  IF arg >= Len(P.Constants) \/ ~InStack(fr, fr.sp) THEN Panic(fr, m)
  ELSE Go(Push(fr, P.Constants[arg + 1]), m)

\* a LOCAL that does not test the slot
ExecLOCALUnchecked(fr, arg, m) ==
  IF arg >= Len(fr.locals) \/ ~InStack(fr, fr.sp) THEN Panic(fr, m)
  ELSE Go(Push(fr, fr.locals[arg + 1]), m)

ExecLOCAL(fr, arg, m) ==
  IF arg >= Len(fr.locals) THEN Panic(fr, m)
  ELSE IF IsNil(fr.locals[arg + 1])
    THEN Break(fr, m, "local variable " \o FuncodeOf(fr).Locals[arg + 1]
                        \o " referenced before assignment")
  ELSE IF ~InStack(fr, fr.sp) THEN Panic(fr, m)
  ELSE Go(Push(fr, fr.locals[arg + 1]), m)

ExecSETLOCAL(fr, arg, m) ==
  IF arg >= Len(fr.locals) \/ ~InStack(fr, fr.sp - 1) THEN Panic(fr, m)
  ELSE Go([fr EXCEPT !.locals[arg + 1] = Stk(fr, fr.sp - 1), !.sp = @ - 1], m)

\* a SETLOCALCELL that puts the value in a cell of its own
ExecSETLOCALCELLNewCell(fr, arg, m) ==
  IF arg >= Len(fr.locals) \/ ~InStack(fr, fr.sp - 1) \/ fr.locals[arg + 1].t # "cell"
    THEN Panic(fr, m)
  ELSE Go([fr EXCEPT !.locals[arg + 1] = MkCell(Len(m.heap) + 1), !.sp = @ - 1],
          [m EXCEPT !.heap = Append(@, [v |-> Stk(fr, fr.sp - 1)])])

ExecSETLOCALCELL(fr, arg, m) ==
  IF arg >= Len(fr.locals) \/ ~InStack(fr, fr.sp - 1) \/ fr.locals[arg + 1].t # "cell"
    THEN Panic(fr, m)
  ELSE Go([fr EXCEPT !.sp = @ - 1],
          [m EXCEPT !.heap[fr.locals[arg + 1].v].v = Stk(fr, fr.sp - 1)])

ExecFREE(fr, arg, m) ==
  IF arg >= Len(fr.fn.v.freevars) \/ ~InStack(fr, fr.sp) THEN Panic(fr, m)
  ELSE Go(Push(fr, fr.fn.v.freevars[arg + 1]), m)

ExecLOCALCELL(fr, arg, m) ==
  IF arg >= Len(fr.locals) \/ fr.locals[arg + 1].t # "cell" THEN Panic(fr, m)
  ELSE LET v == m.heap[fr.locals[arg + 1].v].v IN
       IF IsNil(v)
         THEN Break(fr, m, "local variable " \o FuncodeOf(fr).Locals[arg + 1]
                             \o " referenced before assignment")
       ELSE IF ~InStack(fr, fr.sp) THEN Panic(fr, m)
       ELSE Go(Push(fr, v), m)

ExecFREECELL(fr, arg, m) ==
  LET freevars == fr.fn.v.freevars IN
  IF arg >= Len(freevars) \/ freevars[arg + 1].t # "cell" THEN Panic(fr, m)
  ELSE LET v == m.heap[freevars[arg + 1].v].v IN
       IF IsNil(v)
         THEN IF arg >= Len(FuncodeOf(fr).Freevars) THEN Panic(fr, m)
              ELSE Break(fr, m, "local variable " \o FuncodeOf(fr).Freevars[arg + 1]
                                  \o " referenced before assignment")
       ELSE IF ~InStack(fr, fr.sp) THEN Panic(fr, m)
       ELSE Go(Push(fr, v), m)

ExecGLOBAL(fr, arg, m) ==
  IF arg >= Len(m.globals) THEN Panic(fr, m)
  ELSE IF IsNil(m.globals[arg + 1])
    THEN IF arg >= Len(P.Globals) THEN Panic(fr, m)
         ELSE Break(fr, m, "global variable " \o P.Globals[arg + 1]
                             \o " referenced before assignment")
  ELSE IF ~InStack(fr, fr.sp) THEN Panic(fr, m)
  ELSE Go(Push(fr, m.globals[arg + 1]), m)

ExecSETGLOBAL(fr, arg, m) ==
  IF arg >= Len(m.globals) \/ ~InStack(fr, fr.sp - 1) THEN Panic(fr, m)
  ELSE Go([fr EXCEPT !.sp = @ - 1], [m EXCEPT !.globals[arg + 1] = Stk(fr, fr.sp - 1)])

ExecPREDECLARED(fr, arg, m) ==
  IF arg >= Len(P.Names) THEN Panic(fr, m)
  ELSE LET name == P.Names[arg + 1]
           x == IF name \in DOMAIN P.Predeclared THEN P.Predeclared[name] ELSE Nil IN
       IF IsNil(x)
         THEN Break(fr, m, "internal error: predeclared variable " \o name
                             \o " is uninitialized")
       ELSE IF ~InStack(fr, fr.sp) THEN Panic(fr, m)
       ELSE Go(Push(fr, x), m)

ExecMAKETUPLE(fr, arg, m) ==
  LET sp == fr.sp - arg IN
  IF ~InStack(fr, sp) THEN Panic(fr, m)
  ELSE LET tuple == [i \in 1..arg |-> IF InStack(fr, sp + i - 1)
                                        THEN Stk(fr, sp + i - 1) ELSE Nil] IN
       Go(Push([fr EXCEPT !.sp = sp], MkTuple(tuple)), m)

ExecMAKEFUNC(fr, arg, m) ==
  IF arg + 2 > Len(P.Funcs) \/ ~InStack(fr, fr.sp - 1) THEN Panic(fr, m)
  ELSE LET funcode == P.Funcs[arg + 2]
           tuple == Stk(fr, fr.sp - 1) IN
       IF tuple.t # "tuple" THEN Panic(fr, m)
       ELSE LET n == Len(tuple.v) - Len(funcode.Freevars) IN
            IF n < 0 THEN Panic(fr, m)
            ELSE Go([fr EXCEPT !.stack[fr.sp] =
                       MkFunction(arg + 2, SubSeq(tuple.v, n + 1, Len(tuple.v)))], m)

ExecITERPUSH(fr, arg, m) ==
  IF ~InStack(fr, fr.sp - 1) THEN Panic(fr, m)
  ELSE LET x == Stk(fr, fr.sp - 1)
           fr1 == [fr EXCEPT !.sp = @ - 1] IN
       IF ~Iterable(x) THEN Break(fr1, m, x.t \o " value is not iterable")
       ELSE LET m1 == IterateMem(m, x) IN
            Go([fr1 EXCEPT !.iterstack = Append(@, Len(m1.iters))], m1)

ExecITERJMP(fr, arg, m) ==
  IF fr.iterstack = <<>> \/ ~InStack(fr, fr.sp) THEN Panic(fr, m)
  ELSE LET id == fr.iterstack[Len(fr.iterstack)] IN
       IF IterHasNext(m, id)
         THEN Go(Push(fr, IterElems(m, m.iters[id])[m.iters[id].pos + 1]),
                 [m EXCEPT !.iters[id].pos = @ + 1])
         ELSE Go([NoteXfer(fr, arg) EXCEPT !.runDefer = FALSE, !.pc = arg], m)

\* an ITERPOP that calls Done and leaves the iterator on the stack
ExecITERPOPKeep(fr, arg, m) ==
  IF fr.iterstack = <<>> THEN Panic(fr, m)
  ELSE Go(fr, IterDone(m, fr.iterstack[Len(fr.iterstack)]))

ExecITERPOP(fr, arg, m) ==
  IF fr.iterstack = <<>> THEN Panic(fr, m)
  ELSE LET n == Len(fr.iterstack) IN
       Go([fr EXCEPT !.iterstack = SubSeq(@, 1, n - 1)], IterDone(m, fr.iterstack[n]))

\* UNPACK: the iterator is local to the case, not on iterstack (op records
\* it in the history of iterators).  The first n elements go to the n stack
\* slots, the first one on top.
ExecUNPACK(fr, arg, m) ==
  IF ~InStack(fr, fr.sp - 1) THEN Panic(fr, m)
  ELSE LET iterable == Stk(fr, fr.sp - 1)
           sp0 == fr.sp - 1 IN
       IF ~Iterable(iterable)
         THEN Break([fr EXCEPT !.sp = sp0], m, "got " \o iterable.t \o " in sequence assignment")
       ELSE LET m1 == IterateMem(m, iterable)
                id == Len(m1.iters)
                elems == IterElems(m1, m1.iters[id])
                i == IF Len(elems) < arg THEN Len(elems) ELSE arg
                sp == sp0 + arg
                fr1 == [fr EXCEPT !.sp = sp,
                                  !.stack = [j \in DOMAIN @ |->
                                               IF sp - i < j /\ j <= sp THEN elems[sp - j + 1]
                                               ELSE @[j]]]
                m2 == [m1 EXCEPT !.iters[id].op = "UNPACK",
                                 !.iters[id].pos = IF Len(elems) > arg THEN arg + 1 ELSE i]
            IN IF i > 0 /\ ~InStack(fr, sp - 1) THEN Panic(fr, m2)
               ELSE IF Len(elems) > arg
                 THEN Break(fr1, m2, "too many values to unpack (got " \o Itoa(Len(elems))
                                       \o ", want " \o Itoa(arg) \o ")")
               ELSE IF i < arg
                 THEN Break(fr1, IterDone(m2, id), "too few values to unpack (got " \o Itoa(i)
                                                     \o ", want " \o Itoa(arg) \o ")")
               ELSE Go(fr1, IterDone(m2, id))

ExecSETINDEX(fr, arg, m) ==
  IF ~InStack(fr, fr.sp - 1) \/ ~InStack(fr, fr.sp - 3) THEN Panic(fr, m)
  ELSE LET r == SetIndex(m.heap, Stk(fr, fr.sp - 3), Stk(fr, fr.sp - 2), Stk(fr, fr.sp - 1))
           fr1 == [fr EXCEPT !.sp = @ - 3] IN
       IF r.err # NoErr THEN Break(fr1, m, r.err)
       ELSE Go(fr1, [m EXCEPT !.heap = r.heap])

ExecMAKEDICT(fr, arg, m) ==
  IF ~InStack(fr, fr.sp) THEN Panic(fr, m)
  ELSE Go(Push(fr, MkDictRef(Len(m.heap) + 1)), [m EXCEPT !.heap = Append(@, EmptyTable)])

\* case SETDICT, SETDICTUNIQ: uniq tells which
SetDict(fr, m, uniq) ==
  IF ~InStack(fr, fr.sp - 1) \/ ~InStack(fr, fr.sp - 3) THEN Panic(fr, m)
  ELSE LET dict == Stk(fr, fr.sp - 3)
           k == Stk(fr, fr.sp - 2)
           v == Stk(fr, fr.sp - 1)
           fr1 == [fr EXCEPT !.sp = @ - 3] IN
       IF dict.t # "dict" THEN Panic(fr, m)
       ELSE LET oldlen == Cardinality(DOMAIN m.heap[dict.v].m)
                r == SetKey(m.heap[dict.v], k, v)
                m1 == [m EXCEPT !.heap[dict.v] = r.ht] IN
            IF r.err # NoErr THEN Break(fr1, m1, r.err)
            ELSE IF uniq /\ Cardinality(DOMAIN r.ht.m) = oldlen
              THEN Break(fr1, m1, "duplicate key: " \o Itoa(k.v))
            ELSE Go(fr1, m1)

ExecSETDICT(fr, arg, m) == SetDict(fr, m, FALSE)
ExecSETDICTUNIQ(fr, arg, m) == SetDict(fr, m, TRUE)

ExecAPPEND(fr, arg, m) ==
  IF ~InStack(fr, fr.sp - 1) \/ ~InStack(fr, fr.sp - 2) THEN Panic(fr, m)
  ELSE LET elem == Stk(fr, fr.sp - 1)
           list == Stk(fr, fr.sp - 2) IN
       IF list.t # "list" THEN Panic(fr, m)
       ELSE Go([fr EXCEPT !.sp = @ - 2],
               [m EXCEPT !.heap[list.v].elems = Append(@, elem)])

\* a RUNDEFER that pushes the address it was executed at
ExecRUNDEFERPush(fr, arg, m) ==
  Go([fr EXCEPT !.runDefer = TRUE, !.deferredStack = Append(@, fr.frpc)], m)

ExecRUNDEFER(fr, arg, m) == Go([fr EXCEPT !.runDefer = TRUE], m)

\* TODO in the source: nothing is looked up, nothing is popped
ExecDEFEREXIT(fr, arg, m) == Go(fr, m)

\* TODO in the source: no jump to arg, caughtErr is left as it is
ExecCATCHJMP(fr, arg, m) == Go(fr, m)

-----------------------------------------------------------------------------
(* The dispatch loop as actions: one per opcode, each a whole iteration of *)
(* the loop (step count, cancellation check, decode, opcode body) and, if  *)
(* the body breaks out of the loop, the catch lookup that follows it.      *)

Top == callstack[Len(callstack)]
Running == callstack # <<>> /\ Top.status = "loop"

\* thread.Steps++.  Past maxSteps, the value it is compared with, the
\* counter keeps its last bit only: it still changes at every iteration.
StepsNext == IF steps <= MaxSteps THEN steps + 1 ELSE MaxSteps

\* a budget check that lets the step that reaches maxSteps through
ReasonReadLate ==
  IF (IF steps < MaxSteps THEN steps + 1 ELSE steps) > MaxSteps /\ cancelReason = ""
    THEN "too many steps" ELSE cancelReason

\* thread.cancelReason as the loop reads it: with no OnMaxSteps hook the
\* thread is cancelled when the budget is used up (the first reason is kept)
ReasonRead ==
  IF StepsNext >= MaxSteps /\ cancelReason = "" THEN "too many steps" ELSE cancelReason

NoRaise == [valid |-> FALSE, depth |-> 0, pc |-> 0, err |-> NoErr]
Raise(depth, pc, err) == [valid |-> TRUE, depth |-> depth, pc |-> pc, err |-> err]

\* history: count the entry in a defer body
MarkEntered(fr) ==
  IF fr.status # "loop" THEN fr
  ELSE [fr EXCEPT !.entered =
          [i \in DOMAIN fr.entered |->
             IF fr.pc = FuncodeOf(fr).Defers[i].StartPC THEN fr.entered[i] + 1
             ELSE fr.entered[i]]]

\* the frame an opcode body leaves behind
Settle(R) ==
  CASE R.out = "next" -> MarkEntered(R.fr)
    [] R.out = "break" -> MarkEntered(AfterLoop(R.fr, R.err))
    [] R.out = "panic" -> [R.fr EXCEPT !.status = "panic"]

Finish(R) ==
  /\ callstack' = [callstack EXCEPT ![Len(callstack)] = Settle(R)]
  /\ globals' = R.m.globals
  /\ heap' = R.m.heap
  /\ iters' = R.m.iters
  /\ steps' = StepsNext
  /\ cancelReason' = ReasonRead
  /\ raised' = IF R.out = "break" /\ R.err # NoErr
                 THEN Raise(Len(callstack), R.fr.frpc, R.err) ELSE NoRaise
  /\ UNCHANGED <<prog, outcome, htvars, asmvars, numvars, dexvars, ldvars>>

InCode == Top.pc < Len(FuncodeOf(Top).Code)

Dispatch(op) ==
  /\ Running
  /\ ReasonRead = ""
  /\ InCode
  /\ Decode(Top).op = op

\* a decode that does not record the address of the opcode in the frame
FetchedStalePc == [Top EXCEPT !.pc = Decode(Top).pc]

\* the frame and operand the opcode body sees
Fetched == [Top EXCEPT !.frpc = Top.pc, !.pc = Decode(Top).pc]
Arg == Decode(Top).arg

\* cancelReason is set: the error is raised before fr.pc is updated
LoopCancelled ==
  /\ Running
  /\ ReasonRead # ""
  /\ Finish(Break(Top, Mem, "Starlark computation cancelled: " \o ReasonRead))

\* code[pc] past the end of the code
DecodePanic ==
  /\ Running
  /\ ReasonRead = ""
  /\ ~InCode
  /\ Finish(Panic(Top, Mem))

OpNOP == Dispatch("NOP") /\ Finish(ExecNOP(Fetched, Arg, Mem))
OpPOP == Dispatch("POP") /\ Finish(ExecPOP(Fetched, Arg, Mem))
OpPLUS == Dispatch("PLUS") /\ Finish(ExecPLUS(Fetched, Arg, Mem))
OpNONE == Dispatch("NONE") /\ Finish(ExecNONE(Fetched, Arg, Mem))
OpJMP == Dispatch("JMP") /\ Finish(ExecJMP(Fetched, Arg, Mem))
OpCJMP == Dispatch("CJMP") /\ Finish(ExecCJMP(Fetched, Arg, Mem))
OpRETURN == Dispatch("RETURN") /\ Finish(ExecRETURN(Fetched, Arg, Mem))
OpCONSTANT == Dispatch("CONSTANT") /\ Finish(ExecCONSTANT(Fetched, Arg, Mem))
OpLOCAL == Dispatch("LOCAL") /\ Finish(ExecLOCAL(Fetched, Arg, Mem))
\* the opcodes the switch of CallInternal has a case for
Implemented ==
  {"NOP", "DUP", "DUP2", "POP", "EXCH", "EQL", "NEQ", "GT", "LT", "LE", "GE",
   "PLUS", "MINUS", "STAR", "SLASH", "SLASHSLASH", "PERCENT", "AMP", "PIPE",
   "CIRCUMFLEX", "LTLT", "GTGT", "IN", "UPLUS", "UMINUS", "TILDE", "INPLACE_ADD",
   "INPLACE_PIPE", "NONE", "TRUE", "FALSE", "MANDATORY", "JMP", "CALL", "CALL_VAR",
   "CALL_KW", "CALL_VAR_KW", "ITERPUSH", "ITERJMP", "ITERPOP", "NOT", "RETURN",
   "SETINDEX", "INDEX", "ATTR", "SETFIELD", "MAKEDICT", "SETDICT", "SETDICTUNIQ",
   "APPEND", "SLICE", "UNPACK", "CJMP", "CONSTANT", "MAKETUPLE", "MAKELIST",
   "MAKEFUNC", "LOAD", "SETLOCAL", "SETLOCALCELL", "SETGLOBAL", "LOCAL", "FREE",
   "LOCALCELL", "FREECELL", "GLOBAL", "PREDECLARED", "UNIVERSAL", "RUNDEFER",
   "DEFEREXIT", "CATCHJMP"}

\* default: any other opcode
OpDefault ==
  /\ Running
  /\ ReasonRead = ""
  /\ InCode
  /\ Decode(Top).op \notin Implemented
  /\ Finish(Break(Fetched, Mem, "unimplemented: " \o Decode(Top).op))

OpLOCALCELL == Dispatch("LOCALCELL") /\ Finish(ExecLOCALCELL(Fetched, Arg, Mem))
OpFREECELL == Dispatch("FREECELL") /\ Finish(ExecFREECELL(Fetched, Arg, Mem))
OpGLOBAL == Dispatch("GLOBAL") /\ Finish(ExecGLOBAL(Fetched, Arg, Mem))
OpSETLOCALCELL == Dispatch("SETLOCALCELL") /\ Finish(ExecSETLOCALCELL(Fetched, Arg, Mem))
OpFREE == Dispatch("FREE") /\ Finish(ExecFREE(Fetched, Arg, Mem))
OpSETLOCAL == Dispatch("SETLOCAL") /\ Finish(ExecSETLOCAL(Fetched, Arg, Mem))
OpSETGLOBAL == Dispatch("SETGLOBAL") /\ Finish(ExecSETGLOBAL(Fetched, Arg, Mem))
OpPREDECLARED == Dispatch("PREDECLARED") /\ Finish(ExecPREDECLARED(Fetched, Arg, Mem))
OpMAKETUPLE == Dispatch("MAKETUPLE") /\ Finish(ExecMAKETUPLE(Fetched, Arg, Mem))
OpMAKEFUNC == Dispatch("MAKEFUNC") /\ Finish(ExecMAKEFUNC(Fetched, Arg, Mem))
OpITERPUSH == Dispatch("ITERPUSH") /\ Finish(ExecITERPUSH(Fetched, Arg, Mem))
OpITERJMP == Dispatch("ITERJMP") /\ Finish(ExecITERJMP(Fetched, Arg, Mem))
OpITERPOP == Dispatch("ITERPOP") /\ Finish(ExecITERPOP(Fetched, Arg, Mem))
OpUNPACK == Dispatch("UNPACK") /\ Finish(ExecUNPACK(Fetched, Arg, Mem))
OpMAKEDICT == Dispatch("MAKEDICT") /\ Finish(ExecMAKEDICT(Fetched, Arg, Mem))
OpSETDICT == Dispatch("SETDICT") /\ Finish(ExecSETDICT(Fetched, Arg, Mem))
OpSETDICTUNIQ == Dispatch("SETDICTUNIQ") /\ Finish(ExecSETDICTUNIQ(Fetched, Arg, Mem))
OpSETINDEX == Dispatch("SETINDEX") /\ Finish(ExecSETINDEX(Fetched, Arg, Mem))
OpAPPEND == Dispatch("APPEND") /\ Finish(ExecAPPEND(Fetched, Arg, Mem))
OpRUNDEFER == Dispatch("RUNDEFER") /\ Finish(ExecRUNDEFER(Fetched, Arg, Mem))
OpDEFEREXIT == Dispatch("DEFEREXIT") /\ Finish(ExecDEFEREXIT(Fetched, Arg, Mem))
OpCATCHJMP == Dispatch("CATCHJMP") /\ Finish(ExecCATCHJMP(Fetched, Arg, Mem))

(* CALL <npos<<8 | nkvpairs>: the operands are taken off the stack, then    *)
(* Call pushes a frame and enters the callee's CallInternal, which returns *)
(* at once if it finds its Funcode on the call stack (recursion disabled)  *)
(* or cannot bind the arguments.                                           *)

\* setArgs, for positional arguments and no defaults: the error, or NoErr
setArgs(f, positional, nkvpairs) ==
  IF nkvpairs > 0 THEN "function " \o f.Name \o " got an unexpected keyword argument"
  ELSE IF Len(positional) > f.NumParams
    THEN "function " \o f.Name \o " accepts too few positional arguments"
  ELSE IF Len(positional) < f.NumParams
    THEN "function " \o f.Name \o " missing required positional arguments"
  ELSE NoErr

\* a recursion check that looks at the calling frame only
CalledRecursivelyByCaller(k) ==
  ~P.Recursion /\ callstack[Len(callstack)].fn.v.funcode = k

\* the recursion check at the entry of CallInternal
CalledRecursively(k) ==
  ~P.Recursion /\ \E i \in 1..Len(callstack) : callstack[i].fn.v.funcode = k

\* CallInternal is entered: arguments, cells, a new frame on the thread's stack
Enter(fr1, function, f, positional, nkvpairs, m) ==
  LET e == setArgs(f, positional, nkvpairs) IN
  IF CalledRecursively(function.v.funcode)
    THEN Finish(Break(fr1, m, "function " \o f.Name \o " called recursively"))
  ELSE IF e # NoErr THEN Finish(Break(fr1, m, e))
  ELSE LET s == Spill(f, [i \in 1..Len(f.Locals) |->
                            IF i <= Len(positional) THEN positional[i] ELSE Nil], m.heap) IN
       /\ callstack' =
            Append([callstack EXCEPT ![Len(callstack)] = [fr1 EXCEPT !.status = "calling"]],
                   NewFrame(function, s.locals))
       /\ heap' = s.heap
       /\ steps' = StepsNext
       /\ cancelReason' = ReasonRead
       /\ raised' = NoRaise
       /\ UNCHANGED <<prog, globals, iters, outcome, htvars, asmvars, numvars, dexvars, ldvars>>

\* Call(thread, function, positional, kvpairs)
Call(fr1, function, positional, nkvpairs, m) ==
  IF function.t # "function"
    THEN Finish(Break(fr1, m, "invalid call of non-function (" \o function.t \o ")"))
  ELSE Enter(fr1, function, P.Funcs[function.v.funcode], positional, nkvpairs, m)

\* case CALL: the operand is 256 * positional arguments + keyword pairs
ExecCALL(fr, arg, m) ==
  LET nkvpairs == arg % 256
      npos == arg \div 256
      sp1 == fr.sp - 2 * nkvpairs
      sp2 == sp1 - npos IN
  IF (nkvpairs > 0 /\ (sp1 < 0 \/ ~InStack(fr, fr.sp - 1)))
     \/ (npos > 0 /\ (sp2 < 0 \/ sp1 > Len(fr.stack)))
     \/ ~InStack(fr, sp2 - 1)
    THEN Finish(Panic(fr, m))
  ELSE Call([fr EXCEPT !.sp = sp2], Stk(fr, sp2 - 1),
            [i \in 1..npos |-> Stk(fr, sp2 + i - 1)], nkvpairs, m)

OpCALL == Dispatch("CALL") /\ ExecCALL(Fetched, Arg, Mem)

(* CallInternal returns (or a panic leaves it): the deferred function      *)
(* calls Done on what is left of the iterator stack, and the caller's CALL *)
(* goes on with the result.                                                *)
Status(fr) ==
  IF fr.status = "panic" THEN "panicked"
  ELSE IF fr.inFlightErr # NoErr THEN "failed" ELSE "returned"

FrameExit ==
  /\ callstack # <<>>
  /\ Top.status \in {"exit", "panic"}
  /\ LET n == Len(callstack)
         m == DoneAll(Mem, Top.iterstack) IN
     /\ globals' = m.globals
     /\ heap' = m.heap
     /\ iters' = m.iters
     /\ IF n = 1
          THEN /\ callstack' = <<>>
               /\ outcome' = [status |-> Status(Top),
                              result |-> IF Top.status = "panic" THEN Nil ELSE Top.result,
                              err |-> Top.inFlightErr]
               /\ raised' = NoRaise
          ELSE LET caller == callstack[n - 1]
                   back ==
                     IF Top.status = "panic" THEN [caller EXCEPT !.status = "panic"]
                     ELSE IF Top.inFlightErr # NoErr
                       THEN MarkEntered(AfterLoop(caller, Top.inFlightErr))
                     ELSE [caller EXCEPT !.stack[caller.sp] = Top.result,
                                         !.status = "loop"] IN
               /\ callstack' = [SubSeq(callstack, 1, n - 1) EXCEPT ![n - 1] = back]
               /\ raised' = IF Top.status = "exit" /\ Top.inFlightErr # NoErr
                              THEN Raise(n - 1, caller.frpc, Top.inFlightErr)
                              ELSE NoRaise
               /\ UNCHANGED outcome
     /\ UNCHANGED <<prog, steps, cancelReason, htvars, asmvars, numvars, dexvars, ldvars>>

\* Thread.Cancel called by the host while the call runs
Cancel ==
  /\ callstack # <<>>
  /\ cancelReason = ""
  /\ cancelReason' = "stop"
  /\ UNCHANGED <<prog, callstack, globals, heap, iters, steps, outcome, raised, htvars, asmvars, numvars, dexvars, ldvars>>

InitVM ==
  /\ prog \in 1..Len(Programs)
  /\ callstack = <<NewFrame(MkFunction(1, <<>>),
                            Spill(P.Funcs[1], [i \in 1..Len(P.Funcs[1].Locals) |-> Nil],
                                  P.Lists).locals)>>
  /\ globals = [i \in 1..P.NGlobals |-> Nil]
  /\ heap = Spill(P.Funcs[1], [i \in 1..Len(P.Funcs[1].Locals) |-> Nil], P.Lists).heap
  /\ iters = <<>>
  /\ steps = 0
  /\ cancelReason = ""
  /\ outcome = [status |-> "running", result |-> Nil, err |-> NoErr]
  /\ raised = NoRaise

IdleHT ==
  /\ tables = <<>>
  /\ kiters = <<>>
  /\ htLast = [op |-> "init", t |-> 1, err |-> NoErr, other |-> 0]

\* no text is being assembled
IdleAsm ==
  asm = [phase |-> "idle", text |-> <<>>, p |-> [isnil |-> TRUE], err |-> NoErr,
         b |-> <<>>, dasmErr |-> NoErr, panic |-> ""]

\* no Int operation in progress
IdleNum ==
  num = [phase |-> "idle", x |-> None, y |-> None, intSize |-> 64, v |-> <<>>,
         err |-> NoErr, panic |-> ""]

\* hasDeferredExecution is not being called
IdleDex ==
  dex = [phase |-> "idle", from |-> 0, to |-> 0, defr |-> <<>>, catch |-> <<>>, pc |-> 0,
         found |-> FALSE]

\* no loader has been made
IdleLd ==
  ld = [phase |-> "idle", cache |-> <<>>, stack |-> <<>>, execs |-> <<>>, first |-> <<>>,
        last |-> [how |-> "none", module |-> 0, globals |-> 0, err |-> NoErr], n |-> 0]

Init == InitVM /\ IdleHT /\ IdleAsm /\ IdleNum /\ IdleDex /\ IdleLd

\* one iteration of the loop of CallInternal, or its return
CallInternal ==
  \/ LoopCancelled \/ DecodePanic
  \/ OpNOP \/ OpPOP \/ OpPLUS \/ OpNONE \/ OpJMP \/ OpCJMP \/ OpRETURN \/ OpCONSTANT
  \/ OpLOCAL \/ OpLOCALCELL \/ OpFREECELL \/ OpGLOBAL
  \/ OpSETLOCAL \/ OpSETLOCALCELL \/ OpFREE \/ OpSETGLOBAL \/ OpPREDECLARED
  \/ OpMAKETUPLE \/ OpMAKEFUNC \/ OpCALL
  \/ OpITERPUSH \/ OpITERJMP \/ OpITERPOP \/ OpUNPACK \/ OpSETINDEX \/ OpAPPEND
  \/ OpMAKEDICT \/ OpSETDICT \/ OpSETDICTUNIQ
  \/ OpRUNDEFER \/ OpDEFEREXIT \/ OpCATCHJMP \/ OpDefault
  \/ FrameExit

Next == CallInternal \/ Cancel

Spec == Init /\ [][Next]_vars

\* The goroutine that runs CallInternal is scheduled as long as it has a
\* step to take; nothing obliges the host to call Cancel.
FairSpec == Spec /\ WF_vars(CallInternal)

-----------------------------------------------------------------------------
(* The hashtable of dict and set values.  A table is                       *)
(* [m, itercount, frozen]; m maps the keys present to their values.        *)

HtKeys == 1..MaxKey

\* itercount is a uint32: below zero it wraps around to 2^32 - 1, which is
\* beyond TLC's integers and is stood for by the largest one
Uint32Max == 2147483647
Uint32Dec(n) == IF n = 0 THEN Uint32Max ELSE n - 1
Uint32Inc(n) == IF n = Uint32Max THEN 0 ELSE n + 1

(* freeze.  A value held by a table is an Int (a positive number) or a     *)
(* Dict, which is a reference to a table: DictRef(t) is the Dict whose     *)
(* hashtable is tabs[t].  Freezing a Dict freezes its table, an Int is     *)
(* immutable.  depth is the room left on the goroutine's stack, in calls   *)
(* of freeze: a recursion that uses it up is a fatal stack overflow.       *)
(* The result is [tabs, overflow].                                         *)
DictRef(t) == 0 - t

RECURSIVE freeze(_, _, _)
RECURSIVE ValueFreeze(_, _, _)
RECURSIVE freezeEntries(_, _, _, _)

\* k.Freeze(), v.Freeze(): keys are Ints
ValueFreeze(tabs, v, depth) ==
  IF v > 0 THEN [tabs |-> tabs, overflow |-> FALSE] ELSE freeze(tabs, 0 - v, depth)

\* for k, v := range ht.m; ks are the keys still to visit
freezeEntries(tabs, t, ks, depth) ==
  IF ks = {} THEN [tabs |-> tabs, overflow |-> FALSE]
  ELSE LET k == CHOOSE x \in ks : \A y \in ks : x <= y
           r == ValueFreeze(tabs, tabs[t].m[k], depth - 1) IN
       IF r.overflow THEN r ELSE freezeEntries(r.tabs, t, ks \ {k}, depth)

\* a freeze that marks the table frozen only after it has walked its entries
freezeMarkLast(tabs, t, depth) ==
  IF depth = 0 THEN [tabs |-> tabs, overflow |-> TRUE]
  ELSE IF tabs[t].frozen THEN [tabs |-> tabs, overflow |-> FALSE]
  ELSE LET r == freezeEntries(tabs, t, DOMAIN tabs[t].m, depth) IN
       IF r.overflow THEN r
       ELSE [tabs |-> [r.tabs EXCEPT ![t].frozen = TRUE], overflow |-> FALSE]

freeze(tabs, t, depth) ==
  IF depth = 0 THEN [tabs |-> tabs, overflow |-> TRUE]
  ELSE IF tabs[t].frozen THEN [tabs |-> tabs, overflow |-> FALSE]
  ELSE freezeEntries([tabs EXCEPT ![t].frozen = TRUE], t, DOMAIN tabs[t].m, depth)

\* [ht, found, err]
delete(ht, k) ==
  LET err == checkMutable(ht, "delete from") IN
  IF err # NoErr THEN [ht |-> ht, found |-> FALSE, err |-> err]
  ELSE IF k \notin DOMAIN ht.m THEN [ht |-> ht, found |-> FALSE, err |-> NoErr]
  ELSE [ht |-> [ht EXCEPT !.m = [x \in DOMAIN ht.m \ {k} |-> ht.m[x]]],
        found |-> TRUE, err |-> NoErr]

\* [ht, err]
clear(ht) ==
  LET err == checkMutable(ht, "clear") IN
  IF err # NoErr THEN [ht |-> ht, err |-> err]
  ELSE [ht |-> [ht EXCEPT !.m = EmptyMap], err |-> NoErr]

\* addAll inserts the entries of other one by one and stops at the first
\* error: [ht, err].  ks is what is left of other's keys.
RECURSIVE addAllFrom(_, _, _)
addAllFrom(ht, om, ks) ==
  IF ks = {} THEN [ht |-> ht, err |-> NoErr]
  ELSE LET k == CHOOSE x \in ks : \A y \in ks : x <= y
           r == insert(ht, k, om[k]) IN
       IF r.err # NoErr THEN r ELSE addAllFrom(r.ht, om, ks \ {k})

addAll(ht, other) == addAllFrom(ht, other.m, DOMAIN other.m)

\* iterate and keyIterator.Done: the table after the call
iterate(ht) == IF ~ht.frozen THEN [ht EXCEPT !.itercount = Uint32Inc(@)] ELSE ht
DoneOfFrozen(ht) == [ht EXCEPT !.itercount = Uint32Dec(@)]
Done(ht) == IF ~ht.frozen THEN [ht EXCEPT !.itercount = Uint32Dec(@)] ELSE ht

(* The operations as actions.  htLast records the last operation, the      *)
(* table it was applied to, the error it returned and, for addAll, the     *)
(* number of entries of the other table.                                   *)
Did(op, t, err, other) == [op |-> op, t |-> t, err |-> err, other |-> other]

HtInsert ==
  \E t \in 1..Len(tables), k \in HtKeys, v \in HtKeys :
    LET r == insert(tables[t], k, v) IN
    /\ tables' = [tables EXCEPT ![t] = r.ht]
    /\ htLast' = Did("insert", t, r.err, 0)
    /\ UNCHANGED <<kiters, vmvars, asmvars, numvars, dexvars, ldvars>>

HtDelete ==
  \E t \in 1..Len(tables), k \in HtKeys :
    LET r == delete(tables[t], k) IN
    /\ tables' = [tables EXCEPT ![t] = r.ht]
    /\ htLast' = Did("delete", t, r.err, 0)
    /\ UNCHANGED <<kiters, vmvars, asmvars, numvars, dexvars, ldvars>>

HtClear ==
  \E t \in 1..Len(tables) :
    LET r == clear(tables[t]) IN
    /\ tables' = [tables EXCEPT ![t] = r.ht]
    /\ htLast' = Did("clear", t, r.err, 0)
    /\ UNCHANGED <<kiters, vmvars, asmvars, numvars, dexvars, ldvars>>

\* the tables that addAll may be given as its other table
Maps == UNION {[D -> HtKeys] : D \in SUBSET HtKeys}
OtherTables == {[m |-> mm, itercount |-> 0, frozen |-> FALSE] : mm \in Maps}

HtAddAll ==
  \E t \in 1..Len(tables), other \in OtherTables :
    LET r == addAll(tables[t], other) IN
    /\ tables' = [tables EXCEPT ![t] = r.ht]
    /\ htLast' = Did("addAll", t, r.err, Cardinality(DOMAIN other.m))
    /\ UNCHANGED <<kiters, vmvars, asmvars, numvars, dexvars, ldvars>>

\* the nested calls of freeze that fit the stack are more than there are
\* tables; an overflow ends the program
HtFreeze ==
  \E t \in 1..Len(tables) :
    LET r == freeze(tables, t, Len(tables) + 1) IN
    /\ tables' = r.tabs
    /\ htLast' = Did("freeze", t, IF r.overflow THEN "fatal error: stack overflow" ELSE NoErr, 0)
    /\ UNCHANGED <<kiters, vmvars, asmvars, numvars, dexvars, ldvars>>

HtIterate ==
  \E t \in 1..Len(tables) :
    /\ Len(kiters) < MaxIters
    /\ tables' = [tables EXCEPT ![t] = iterate(@)]
    /\ kiters' = Append(kiters, [ht |-> t, done |-> FALSE, unfrozen |-> ~tables[t].frozen])
    /\ htLast' = Did("iterate", t, NoErr, 0)
    /\ UNCHANGED <<vmvars, asmvars, numvars, dexvars, ldvars>>

\* Done is called once on an iterator (the Iterator contract)
HtDone ==
  \E i \in 1..Len(kiters) :
    /\ ~kiters[i].done
    /\ tables' = [tables EXCEPT ![kiters[i].ht] = Done(@)]
    /\ kiters' = [kiters EXCEPT ![i].done = TRUE]
    /\ htLast' = Did("Done", kiters[i].ht, NoErr, 0)
    /\ UNCHANGED <<vmvars, asmvars, numvars, dexvars, ldvars>>

IdleVM ==
  /\ prog = 1
  /\ callstack = <<>>
  /\ globals = <<>>
  /\ heap = <<>>
  /\ iters = <<>>
  /\ steps = 0
  /\ cancelReason = ""
  /\ outcome = [status |-> "running", result |-> Nil, err |-> NoErr]
  /\ raised = NoRaise

InitHT ==
  /\ IdleVM
  /\ IdleAsm
  /\ IdleNum
  /\ IdleDex
  /\ IdleLd
  /\ tables = <<EmptyTable>>
  /\ kiters = <<>>
  /\ htLast = [op |-> "init", t |-> 1, err |-> NoErr, other |-> 0]

NextHT ==
  \/ HtInsert \/ HtDelete \/ HtClear \/ HtAddAll \/ HtFreeze \/ HtIterate \/ HtDone

SpecHT == InitHT /\ [][NextHT]_vars

(* Tables that hold Dicts: every way MaxTables tables can hold Ints and    *)
(* each other, themselves included, under the keys of HtKeys.              *)
DictMaps ==
  UNION {[D -> {1} \cup {DictRef(u) : u \in 1..MaxTables}] : D \in SUBSET HtKeys}

InitFreeze ==
  /\ IdleVM
  /\ IdleAsm
  /\ IdleNum
  /\ IdleDex
  /\ IdleLd
  /\ tables \in [1..MaxTables -> {[m |-> mm, itercount |-> 0, frozen |-> FALSE] : mm \in DictMaps}]
  /\ kiters = <<>>
  /\ htLast = [op |-> "init", t |-> 1, err |-> NoErr, other |-> 0]

NextFreeze == HtFreeze

SpecFreeze == InitFreeze /\ [][NextFreeze]_vars

-----------------------------------------------------------------------------
(* The assembler: compile.Asm.  The text is a sequence of lines, a line the *)
(* sequence of its fields (strings.Fields); a field that starts with '#' is *)
(* the field "#".  The scanner state st is the asm struct with the fields   *)
(* of the current line: [s, p, fn, err, fields].                            *)

sections ==
  {"program:", "loads:", "names:", "globals:", "constants:", "function:",
   "locals:", "cells:", "freevars:", "catches:", "code:"}

\* strings.EqualFold, on the spellings the texts use
EqualFold(x, y) ==
  LET ToLower(f) == CASE f = "PROGRAM:" -> "program:"
                      [] f = "FUNCTION:" -> "function:"
                      [] f = "LOCALS:" -> "locals:"
                      [] f = "CODE:" -> "code:"
                      [] OTHER -> f
  IN ToLower(x) = ToLower(y)

\* strconv.ParseUint / ParseInt (base 10) on the numerals of one digit:
\* [v, ok]; v is 0 on a syntax error
ParseUint(f) ==
  IF \E n \in 0..9 : Itoa(n) = f
    THEN [v |-> CHOOSE n \in 0..9 : Itoa(n) = f, ok |-> TRUE]
    ELSE [v |-> 0, ok |-> FALSE]

ParseInt(f) ==
  IF f = "-1" THEN [v |-> -1, ok |-> TRUE] ELSE ParseUint(f)

\* a nil *Program or *Funcode
NilPtr == [isnil |-> TRUE]

\* var p Program
NewProgram(recursion) ==
  [isnil |-> FALSE, Recursion |-> recursion, Loads |-> <<>>, Names |-> <<>>,
   Globals |-> <<>>, Constants |-> <<>>, Toplevel |-> NilPtr, Functions |-> <<>>]

\* a.int / a.uint: the state with a.err set on a syntax error
int(st, f) ==
  IF ParseInt(f).ok THEN st
  ELSE [st EXCEPT !.err = "invalid integer: " \o f \o ": strconv.ParseInt: parsing \""
                           \o f \o "\": invalid syntax"]

uint(st, f) ==
  IF ParseUint(f).ok THEN st
  ELSE [st EXCEPT !.err = "invalid unsigned integer: " \o f
                           \o ": strconv.ParseUint: parsing \"" \o f \o "\": invalid syntax"]

\* a.option
RECURSIVE option(_, _)
option(fields, opt) ==
  IF fields = <<>> THEN FALSE
  ELSE IF Head(fields) = "+" \o opt THEN TRUE
  ELSE IF Head(fields) = "-" \o opt THEN FALSE
  ELSE option(Tail(fields), opt)

\* a.next: the fields of the next line that is neither empty nor a comment,
\* nil at the end of the text or when a.err is set
RECURSIVE Scan(_)
Scan(s) ==
  LET StripComment(fields) ==
        IF \E i \in DOMAIN fields : fields[i] = "#"
          THEN SubSeq(fields, 1, (CHOOSE i \in DOMAIN fields :
                 fields[i] = "#" /\ \A j \in 1..(i - 1) : fields[j] # "#") - 1)
          ELSE fields
  IN IF s = <<>> THEN [fields |-> <<>>, s |-> <<>>]
     ELSE IF Len(Head(s)) # 0 /\ Head(s)[1] # "#"
       THEN [fields |-> StripComment(Head(s)), s |-> Tail(s)]
     ELSE Scan(Tail(s))

next(st) ==
  IF st.err # NoErr THEN [st EXCEPT !.fields = <<>>]
  ELSE [st EXCEPT !.fields = Scan(st.s).fields, !.s = Scan(st.s).s]

\* a.program
program(st) ==
  IF st.err # NoErr THEN st
  ELSE IF Len(st.fields) = 0 \/ ~EqualFold(st.fields[1], "program:")
    THEN [st EXCEPT !.err = "expected program section"
                      \o (IF Len(st.fields) > 0 THEN ", found " \o st.fields[1] ELSE "")]
  ELSE [st EXCEPT !.p = NewProgram(option(Tail(st.fields), "recursion"))]

\* reverseLookupOpcode[strings.ToLower(f)]: [op, ok]; NoArgOps are the opcodes
\* below compile.OpcodeArgMin
reverseLookupOpcode(f) ==
  LET NoArgOps ==
  {"NOP", "DUP", "DUP2", "POP", "EXCH", "LT", "GT", "GE", "LE", "EQL", "NEQ",
   "PLUS", "MINUS", "STAR", "SLASH", "SLASHSLASH", "PERCENT", "AMP", "PIPE",
   "CIRCUMFLEX", "LTLT", "GTGT", "IN", "UPLUS", "UMINUS", "TILDE", "NONE", "TRUE",
   "FALSE", "MANDATORY", "ITERPUSH", "ITERPOP", "NOT", "RETURN", "SETINDEX", "INDEX",
   "SETDICT", "SETDICTUNIQ", "APPEND", "SLICE", "INPLACE_ADD", "INPLACE_PIPE",
   "MAKEDICT", "RUNDEFER", "DEFEREXIT"}
      name == CASE f = "nop" -> "NOP" [] f = "jmp" -> "JMP" [] OTHER -> f IN
  [op |-> name, ok |-> name \in NoArgOps \cup ArgOps]

\* the varint encoding of an operand, low 7 bits first
RECURSIVE Varint(_)
Varint(arg) ==
  IF arg < 128 THEN <<arg>> ELSE <<128 + (arg % 128)>> \o Varint(arg \div 128)

encodeInsn(code, op, arg) ==
  IF op \in ArgOps THEN code \o <<op>> \o Varint(arg) ELSE Append(code, op)

\* one line of the constants section
constant(st) ==
  LET f == st.fields
      \* strconv.ParseFloat, big.Int.SetString and strconv.Unquote, on the
      \* spellings the texts use: [v, ok]
      ParseFloat(x) == IF x = "1.5" \/ ParseInt(x).ok
                         THEN [v |-> x, ok |-> TRUE] ELSE [v |-> "", ok |-> FALSE]
      SetString(x) == IF x = "99999999999999999999" \/ ParseInt(x).ok
                        THEN [v |-> x, ok |-> TRUE] ELSE [v |-> "", ok |-> FALSE]
      Unquote(x) == CASE x = "\"a\"" -> [v |-> "a", ok |-> TRUE]
                      [] x = "\"\"" -> [v |-> "", ok |-> TRUE]
                      [] OTHER -> [v |-> "", ok |-> FALSE]
  IN
  IF Len(f) # 2
    THEN [st EXCEPT !.err = "invalid constant: expected type and value, got "
                              \o Itoa(Len(f)) \o " fields"]
  ELSE CASE f[1] = "int" ->
              [int(st, f[2]) EXCEPT !.p.Constants = Append(@, MkInt(ParseInt(f[2]).v))]
         [] f[1] = "float" ->
              IF ParseFloat(f[2]).ok
                THEN [st EXCEPT !.p.Constants = Append(@, [t |-> "float", v |-> ParseFloat(f[2]).v])]
                ELSE [st EXCEPT !.err = "invalid float: " \o f[2]]
         [] f[1] = "bigint" ->
              IF SetString(f[2]).ok
                THEN [st EXCEPT !.p.Constants = Append(@, [t |-> "bigint", v |-> SetString(f[2]).v])]
                ELSE [st EXCEPT !.err = "invalid bigint: " \o f[2]]
         [] f[1] = "string" ->
              IF Unquote(f[2]).ok
                THEN [st EXCEPT !.p.Constants = Append(@, MkStr(Unquote(f[2]).v))]
                ELSE [st EXCEPT !.err = "invalid string: " \o f[2]]
         [] f[1] = "bytes" ->
              IF Unquote(f[2]).ok
                THEN [st EXCEPT !.p.Constants = Append(@, [t |-> "bytes", v |-> Unquote(f[2]).v])]
                ELSE [st EXCEPT !.err = "invalid bytes: " \o f[2]]
         [] OTHER -> [st EXCEPT !.err = "invalid constant type: " \o f[1]]

\* one line of the catches section
catch(st) ==
  LET f == st.fields IN
  IF Len(f) # 3
    THEN [st EXCEPT !.err = "invalid catch: expected pc0, pc1 and startpc, got "
                              \o Itoa(Len(f)) \o " fields"]
  ELSE [uint(uint(uint(st, f[1]), f[2]), f[3]) EXCEPT
          !.fn.Catches = Append(@, [PC0 |-> ParseUint(f[1]).v, PC1 |-> ParseUint(f[2]).v,
                                    StartPC |-> ParseUint(f[3]).v])]

\* one line of the code section
insn(st) ==
  LET f == st.fields
      r == reverseLookupOpcode(f[1]) IN
  IF ~r.ok THEN [st EXCEPT !.err = "invalid opcode: " \o f[1]]
  ELSE IF r.op \in ArgOps
    THEN IF Len(f) # 2
           THEN [st EXCEPT !.err = "expected an argument for opcode " \o f[1] \o ", got "
                                     \o Itoa(Len(f)) \o " fields"]
           ELSE [uint(st, f[2]) EXCEPT !.fn.Code = encodeInsn(@, r.op, ParseUint(f[2]).v)]
  ELSE IF Len(f) # 1
    THEN [st EXCEPT !.err = "expected no argument for opcode " \o f[1] \o ", got "
                              \o Itoa(Len(f)) \o " fields"]
  ELSE [st EXCEPT !.fn.Code = encodeInsn(@, r.op, 0)]

\* one line of the cells section, without the search of the local
cellUnchecked(st) == [st EXCEPT !.fn.Cells = Append(@, Len(st.fn.Locals))]

\* one line of the cells section: the index of the first local of that name
cell(st) ==
  LET name == st.fields[1]
      locals == st.fn.Locals
      found == {i \in DOMAIN locals : locals[i] = name}
  IN IF found # {}
       THEN [st EXCEPT !.fn.Cells = Append(@, (CHOOSE i \in found : \A j \in found : i <= j) - 1)]
       ELSE [st EXCEPT !.err = "invalid cell: \"" \o name \o "\" is not an existing local"]

\* one line of a section, by the section's name
Item(st, sec) ==
  LET f == st.fields IN
  CASE sec = "loads:" -> [st EXCEPT !.p.Loads = Append(@, f[1])]
    [] sec = "names:" -> [st EXCEPT !.p.Names = Append(@, f[1])]
    [] sec = "globals:" -> [st EXCEPT !.p.Globals = Append(@, f[1])]
    [] sec = "constants:" -> constant(st)
    [] sec = "locals:" -> [st EXCEPT !.fn.Locals = Append(@, f[1])]
    [] sec = "cells:" -> cell(st)
    [] sec = "freevars:" -> [st EXCEPT !.fn.Freevars = Append(@, f[1])]
    [] sec = "catches:" -> catch(st)
    [] sec = "code:" -> insn(st)

\* the loop of a section: the lines up to the next section line or the end;
\* it stops at the first error
RECURSIVE Lines(_, _)
Lines(st, sec) ==
  IF Len(st.fields) = 0 \/ st.fields[1] \in sections THEN st
  ELSE LET r == Item(st, sec) IN
       IF r.err # NoErr THEN r ELSE Lines(next(r), sec)

\* a.loads, a.names, a.globals, a.constants, a.locals, a.cells, a.freevars,
\* a.catches: an optional section
Optional(st, sec) ==
  IF st.err # NoErr \/ Len(st.fields) = 0 \/ ~EqualFold(st.fields[1], sec) THEN st
  ELSE Lines(next(st), sec)

\* the optional sections secs, in their order
RECURSIVE Sections(_, _)
Sections(st, secs) ==
  IF secs = <<>> THEN st ELSE Sections(Optional(st, Head(secs)), Tail(secs))

\* a.code: the section is required
code(st) ==
  IF st.err # NoErr THEN st
  ELSE IF Len(st.fields) = 0 \/ ~EqualFold(st.fields[1], "code:")
    THEN [st EXCEPT !.err = "expected code section"
                      \o (IF Len(st.fields) > 0 THEN ", found " \o st.fields[1] ELSE "")]
  ELSE Lines(next(st), "code:")

\* strings.Join(fields, " ")
RECURSIVE Join(_)
Join(fields) ==
  IF fields = <<>> THEN ""
  ELSE IF Len(fields) = 1 THEN Head(fields)
  ELSE Head(fields) \o " " \o Join(Tail(fields))

\* a.function: the header line, the sub-sections, then the function is stored
\* in the program, an error in a sub-section or not
function(st) ==
  LET f == st.fields IN
  IF st.err # NoErr \/ Len(f) = 0 \/ ~EqualFold(f[1], "function:") THEN st
  ELSE IF Len(f) < 5
    THEN next([st EXCEPT !.err =
           "invalid function: want at least 5 fields: 'function: NAME <stack> <params> <kwparams> [+varargs +kwargs]', got "
           \o Itoa(Len(f)) \o " fields (" \o Join(f) \o ")"])
  ELSE
    LET hdr == int(int(int(st, f[3]), f[4]), f[5])
        fn == [isnil |-> FALSE, Name |-> f[2], MaxStack |-> ParseInt(f[3]).v,
               NumParams |-> ParseInt(f[4]).v, NumKwonlyParams |-> ParseInt(f[5]).v,
               HasVarargs |-> option(SubSeq(f, 6, Len(f)), "varargs"),
               HasKwargs |-> option(SubSeq(f, 6, Len(f)), "kwargs"),
               Locals |-> <<>>, Cells |-> <<>>, Freevars |-> <<>>, Catches |-> <<>>,
               Defers |-> <<>>, Code |-> <<>>]
        body == code(Sections(next([hdr EXCEPT !.fn = fn]),
                              <<"locals:", "cells:", "freevars:", "catches:">>))
    IN IF body.p.Toplevel.isnil
         THEN [body EXCEPT !.p.Toplevel = body.fn, !.fn = NilPtr]
         ELSE [body EXCEPT !.p.Functions = Append(@, body.fn), !.fn = NilPtr]

\* the loop over the functions in Asm: the test of the section line is exact
RECURSIVE functions(_)
functions(st) ==
  IF st.err = NoErr /\ Len(st.fields) > 0 /\ st.fields[1] = "function:"
    THEN functions(function(st))
    ELSE st

\* Asm: the program handed back, with the error if any
Asm(b) ==
  LET s0 == [s |-> b, p |-> NilPtr, fn |-> NilPtr, err |-> NoErr, fields |-> <<>>]
      hd == next(program(next(s0)))
      st == functions(Sections(hd, <<"loads:", "names:", "globals:", "constants:">>))
      err == IF st.err # NoErr THEN st.err
             ELSE IF Len(st.fields) > 0 THEN "unexpected section: " \o st.fields[1]
             ELSE IF st.p.Toplevel.isnil THEN "missing top-level function"
             ELSE NoErr
  IN [p |-> st.p, err |-> err]

\* Dasm: the text, the error and the panic
Dasm(p) == [b |-> <<>>, err |-> NoErr, panic |-> "unreachable"]

\* The assembler texts: a text is a sequence of lines, a line the sequence of
\* its fields.  The texts are the sequences of at most MaxSections blocks.
MaxSections == 5

Blocks ==
  << << <<"program:">> >>,
     << <<"loads:">>, <<"m">> >>,
     << <<"function:", "Top", "0", "0", "0">> >>,
     << <<"catches:">>, <<"1", "2", "3">> >>,
     << <<"defers:">>, <<"0", "1", "3">> >>,
     << <<"code:">>, <<"NOP">>, <<"JMP", "3">>, <<"NOP">> >>,
     << <<"locals:">>, <<"x">> >>,
     << <<"cells:">>, <<"x">> >>,
     << <<"cells:">>, <<"z">> >>,
     << <<"code:">>, <<"NOP">>, <<"JMP", "2">> >> >>

\* the texts: every text of at most two blocks, and the texts of at most
\* MaxSections blocks that start with program: and have no other program:
Layouts ==
  UNION {[1..n -> DOMAIN Blocks] : n \in 0..2}
    \cup {<<1>> \o l : l \in UNION {[1..n -> 2..Len(Blocks)] : n \in 2..(MaxSections - 1)}}

\* the text made of the blocks bs
RECURSIVE Text(_)
Text(bs) == IF bs = <<>> THEN <<>> ELSE Blocks[Head(bs)] \o Text(Tail(bs))

\* the text is assembled
AsmRun ==
  /\ asm.phase = "input"
  /\ LET r == Asm(asm.text)
     IN asm' = [asm EXCEPT !.phase = "assembled", !.p = r.p, !.err = r.err]
  /\ UNCHANGED <<vmvars, htvars, numvars, dexvars, ldvars>>

\* a program that Asm returned without an error is disassembled
DasmRun ==
  /\ asm.phase = "assembled"
  /\ asm.err = NoErr
  /\ asm' = [asm EXCEPT !.phase = "dasm", !.b = Dasm(asm.p).b, !.dasmErr = Dasm(asm.p).err,
                        !.panic = Dasm(asm.p).panic]
  /\ UNCHANGED <<vmvars, htvars, numvars, dexvars, ldvars>>

InitAsm ==
  /\ IdleVM
  /\ IdleHT
  /\ IdleNum
  /\ IdleDex
  /\ IdleLd
  /\ \E l \in Layouts :
       asm = [phase |-> "input", text |-> Text(l), p |-> NilPtr, err |-> NoErr,
              b |-> <<>>, dasmErr |-> NoErr, panic |-> ""]

NextAsm ==
  \/ AsmRun
  \/ DasmRun

SpecAsm == InitAsm /\ [][NextAsm]_vars

-----------------------------------------------------------------------------
(* Int (starlark/int.go).  An Int is an int64; it is kept as four 16-bit   *)
(* limbs, most significant first, in two's complement, so that arithmetic  *)
(* wraps exactly where Go's does.  Go's int is 32 or 64 bits wide          *)
(* depending on the build: intSize.                                        *)

Limb == 65536

\* type Int int64
Int64(limbs) == [t |-> "int", v |-> limbs]

\* i - j on int64: wraps on overflow
Sub64(i, j) ==
  LET d4 == i[4] - j[4]
      d3 == i[3] - j[3] - (IF d4 < 0 THEN 1 ELSE 0)
      d2 == i[2] - j[2] - (IF d3 < 0 THEN 1 ELSE 0)
      d1 == i[1] - j[1] - (IF d2 < 0 THEN 1 ELSE 0)
  IN  <<(d1 + Limb) % Limb, (d2 + Limb) % Limb, (d3 + Limb) % Limb, (d4 + Limb) % Limb>>

\* i < j on int64 (signed)
Less64(i, j) ==
  LET a == <<(i[1] + Limb \div 2) % Limb, i[2], i[3], i[4]>>
      b == <<(j[1] + Limb \div 2) % Limb, j[2], j[3], j[4]>>
  IN  \E k \in 1..4 : a[k] < b[k] /\ \A h \in 1..(k - 1) : a[h] = b[h]

\* the conversion int(i): the low intSize bits of i
ToInt(i, intSize) == SubSeq(i, 5 - intSize \div 16, 4)

\* math.MinInt32, math.MaxInt32 as untyped constants converted to Int
MinInt32 == <<Limb - 1, Limb - 1, Limb \div 2, 0>>
MaxInt32 == <<0, 0, Limb \div 2 - 1, Limb - 1>>

\* strconv.FormatInt(int64(i), 10), the %s of an Int
RECURSIVE FormatUint(_)
FormatUint(u) ==
  LET c1 == u[1]
      c2 == (c1 % 10) * Limb + u[2]
      c3 == (c2 % 10) * Limb + u[3]
      c4 == (c3 % 10) * Limb + u[4]
      q  == <<c1 \div 10, c2 \div 10, c3 \div 10, c4 \div 10>>
  IN  IF q = <<0, 0, 0, 0>> THEN Itoa(c4 % 10) ELSE FormatUint(q) \o Itoa(c4 % 10)

FormatInt(i) ==
  IF i[1] >= Limb \div 2 THEN "-" \o FormatUint(Sub64(<<0, 0, 0, 0>>, i)) ELSE FormatUint(i)

\* Int.Cmp: the type assertion v.(Int) panics on anything but an Int
Cmp(i, v, intSize) ==
  IF v.t # "int"
  THEN [v |-> <<>>, err |-> NoErr,
        panic |-> "interface conversion: starlark.Value is " \o v.t \o ", not starlark.Int"]
  ELSE [v |-> ToInt(Sub64(i.v, v.v), intSize), err |-> NoErr, panic |-> ""]

\* AsInt32 without its range test
AsInt32Unchecked(x, intSize) ==
  IF x.t # "int"
  THEN [v |-> ToInt(<<0, 0, 0, 0>>, intSize), err |-> "got " \o x.t \o ", want int"]
  ELSE [v |-> ToInt(x.v, intSize), err |-> NoErr]

AsInt32(x, intSize) ==
  IF x.t # "int"
  THEN [v |-> ToInt(<<0, 0, 0, 0>>, intSize), err |-> "got " \o x.t \o ", want int"]
  ELSE IF Less64(x.v, MinInt32) \/ Less64(MaxInt32, x.v)
  THEN [v |-> ToInt(<<0, 0, 0, 0>>, intSize), err |-> FormatInt(x.v) \o " out of range"]
  ELSE [v |-> ToInt(x.v, intSize), err |-> NoErr]

\* the Values tried: the Ints 0, 1, -1, the int32 limits and their
\* neighbours, the int64 limits; and two Values that are not Ints
Operands ==
  << Int64(<<0, 0, 0, 0>>), Int64(<<0, 0, 0, 1>>),
     Int64(<<Limb - 1, Limb - 1, Limb - 1, Limb - 1>>),
     Int64(MinInt32), Int64(MaxInt32),
     Int64(<<Limb - 1, Limb - 1, Limb \div 2 - 1, Limb - 1>>),
     Int64(<<0, 0, Limb \div 2, 0>>),
     Int64(<<Limb \div 2, 0, 0, 0>>),
     Int64(<<Limb \div 2 - 1, Limb - 1, Limb - 1, Limb - 1>>),
     None, MkStr("a") >>

\* i.Cmp(y, depth)
CmpRun ==
  /\ num.phase = "input"
  /\ num.x.t = "int"
  /\ LET r == Cmp(num.x, num.y, num.intSize)
     IN  num' = [num EXCEPT !.phase = "cmp", !.v = r.v, !.err = r.err, !.panic = r.panic]
  /\ UNCHANGED <<vmvars, htvars, asmvars, dexvars, ldvars>>

\* AsInt32(x)
AsInt32Run ==
  /\ num.phase = "input"
  /\ LET r == AsInt32(num.x, num.intSize)
     IN  num' = [num EXCEPT !.phase = "asint32", !.v = r.v, !.err = r.err]
  /\ UNCHANGED <<vmvars, htvars, asmvars, dexvars, ldvars>>

InitInt ==
  /\ IdleVM
  /\ IdleHT
  /\ IdleAsm
  /\ IdleDex
  /\ IdleLd
  /\ \E x \in DOMAIN Operands, y \in DOMAIN Operands, intSize \in {32, 64} :
       num = [phase |-> "input", x |-> Operands[x], y |-> Operands[y],
              intSize |-> intSize, v |-> <<>>, err |-> NoErr, panic |-> ""]

NextInt ==
  \/ CmpRun
  \/ AsInt32Run

SpecInt == InitInt /\ [][NextInt]_vars

-----------------------------------------------------------------------------
(* hasDeferredExecution called on its own: the interpreter does not call   *)
(* it.  from is the offset of an instruction, to the target of a transfer  *)
(* (-1 for a return), pc the caller's program counter, already past the    *)
(* instruction.                                                            *)

\* the descriptors over the offsets 0..MaxPc: a covered range and the start
\* of a body outside it
Descriptors ==
  {d \in [PC0 : 0..MaxPc, PC1 : 0..MaxPc, StartPC : 0..MaxPc] :
     d.PC0 <= d.PC1 /\ ~(d.PC0 <= d.StartPC /\ d.StartPC <= d.PC1)}

DescriptorLists(n) == UNION {[1..k -> Descriptors] : k \in 0..n}

HasDeferredExecutionRun ==
  /\ dex.phase = "input"
  /\ LET r == hasDeferredExecution(dex.from, dex.to, dex.defr, dex.catch, dex.pc)
     IN  dex' = [dex EXCEPT !.phase = "returned", !.found = r.found, !.pc = r.pc]
  /\ UNCHANGED <<vmvars, htvars, asmvars, numvars, ldvars>>

InitDefer ==
  /\ IdleVM
  /\ IdleHT
  /\ IdleAsm
  /\ IdleNum
  /\ IdleLd
  /\ \E from \in 0..MaxPc, to \in (0 - 1)..MaxPc,
        ds \in DescriptorLists(MaxDefers), cs \in DescriptorLists(MaxDefers - 1) :
       dex = [phase |-> "input", from |-> from, to |-> to, defr |-> ds, catch |-> cs,
              pc |-> from + 1, found |-> FALSE]

NextDefer == HasDeferredExecutionRun

SpecDefer == InitDefer /\ [][NextDefer]_vars

-----------------------------------------------------------------------------
(* Properties of the interpreter (under Spec).                              *)

\* the errors the loop raises when it finds the thread cancelled
CancelErrs ==
  {"Starlark computation cancelled: stop", "Starlark computation cancelled: too many steps"}

\* the catch descriptors of f that cover pc, by index
Covering(f, pc) == {i \in 1..Len(f.Catches) : Covers(f.Catches[i], pc)}

\* the defer descriptors of f eligible for a transfer from -> to, by index
Eligible(f, from, to) ==
  {i \in 1..Len(f.Defers) : Covers(f.Defers[i], from) /\ ~Covers(f.Defers[i], to)}

\* C1: after a control transfer made with runDefer set, from `from` to `to`
\* (-1 for RETURN), once control is at `to` (or the function is returning)
\* every defer that covers `from` and not `to` has had its body entered
\* exactly once since the transfer.
C1_DefersEnteredOnTransfer ==
  \A d \in 1..Len(callstack) :
    LET fr == callstack[d] IN
    (/\ fr.xfer.set
     /\ \/ fr.xfer.to = -1 /\ fr.status = "exit"
        \/ fr.xfer.to # -1 /\ fr.status = "loop" /\ fr.pc = fr.xfer.to)
    => \A i \in Eligible(FuncodeOf(fr), fr.xfer.from, fr.xfer.to) : fr.entered[i] = 1

\* C2: the three-defer program of scenario S2, run without cancellation, ends
\* without error with globals x = 1, y = 2, z = 3 (the defer bodies having
\* run last-declared first).
C2_S2RunsDefersInReverseOrder ==
  (prog = 1 /\ outcome.status # "running" /\ cancelReason = "")
  => /\ outcome.status = "returned"
     /\ outcome.err = NoErr
     /\ globals = <<MkInt(1), MkInt(2), MkInt(3)>>

\* C3: when an opcode raises an error at pc p and some catch of the Funcode
\* covers p, the frame stays on the call stack and resumes in its dispatch
\* loop at the StartPC of the covering catch with the highest index, with
\* caughtErr the error and inFlightErr nil.
C3_HandlerIsInnermostCoveringCatch ==
  (raised.valid /\ raised.err \notin CancelErrs)
  => LET fr == callstack[raised.depth]
         f == FuncodeOf(fr)
         S == Covering(f, raised.pc) IN
     S # {} =>
       /\ Len(callstack) = raised.depth
       /\ fr.status = "loop"
       /\ fr.caughtErr = raised.err
       /\ fr.inFlightErr = NoErr
       /\ fr.pc = f.Catches[Max(S)].StartPC

\* an error raised under two nested catches has entered the inner one
C3_Witness ==
  /\ raised.valid
  /\ raised.err \notin CancelErrs
  /\ Cardinality(Covering(FuncodeOf(callstack[raised.depth]), raised.pc)) = 2
  /\ callstack[raised.depth].caughtErr = raised.err
  /\ callstack[raised.depth].pc = 10

CalleeFails ==
  /\ Len(callstack) >= 2
  /\ Top.status = "exit"
  /\ Top.inFlightErr # NoErr
  /\ Top.inFlightErr \notin CancelErrs
  /\ Len(callstack') = Len(callstack) - 1

C5_Step ==
  CalleeFails =>
    LET n == Len(callstack)
        caller == callstack[n - 1]
        f == FuncodeOf(caller)
        S == Covering(f, caller.frpc)
        after == callstack'[n - 1] IN
    /\ f.Code[caller.frpc + 1] = "CALL"
    /\ IF S # {}
         THEN /\ after.status = "loop"
              /\ after.pc = f.Catches[Max(S)].StartPC
              /\ after.caughtErr = Top.inFlightErr
              /\ after.inFlightErr = NoErr
         ELSE /\ after.status = "exit"
              /\ after.inFlightErr = Top.inFlightErr

S3Result ==
  (prog = 2 /\ outcome.status # "running" /\ cancelReason = "")
  => /\ outcome.status = "returned"
     /\ outcome.err = NoErr
     /\ globals = <<MkInt(2)>>

C6_CancellationNotCaught ==
  (raised.valid /\ raised.err \in CancelErrs)
  => LET fr == callstack[raised.depth] IN
     /\ fr.status = "exit"
     /\ fr.inFlightErr = raised.err
     /\ fr.caughtErr # raised.err

\* C7: Done is called exactly once on every iterator ITERPUSH has pushed, at
\* the latest when its call is left (return, error or panic): an iterator still
\* on an iterator stack has not been released, any other has been released
\* once, and no iterator is on two stacks or twice on one.
OnIterstack(id) ==
  UNION {{<<d, j>> : j \in {k \in DOMAIN callstack[d].iterstack :
                                callstack[d].iterstack[k] = id}} :
         d \in DOMAIN callstack}

C7_IteratorsDoneExactlyOnce ==
  \A id \in {i \in 1..Len(iters) : iters[i].op = "ITERPUSH"} :
    /\ Cardinality(OnIterstack(id)) <= 1
    /\ iters[id].done = IF OnIterstack(id) = {} THEN 1 ELSE 0

\* a panic has passed through the interpreter with an iterator pushed
C7_Witness ==
  /\ outcome.status = "panicked"
  /\ Len(iters) = 1
  /\ iters[1].done = 1

\* C9: APPEND or SETINDEX on a frozen List raises an error containing "frozen"
\* and leaves the elements of the list as they were.
FrozenTarget ==
  /\ Running
  /\ ReasonRead = ""
  /\ InCode
  /\ LET op == Decode(Top).op
         k == IF op = "APPEND" THEN 2 ELSE 3 IN
     /\ op \in {"APPEND", "SETINDEX"}
     /\ InStack(Top, Top.sp - k)
     /\ Stk(Top, Top.sp - k).t = "list"
     /\ heap[Stk(Top, Top.sp - k).v].frozen

C9_Step ==
  (FrozenTarget /\ callstack' # callstack)
  => /\ raised'.valid
     /\ raised'.err \in {"cannot append to frozen list",
                         "cannot assign to element of frozen list"}
     /\ heap' = heap

C9_FrozenListNotMutated == [][C9_Step]_vars

-----------------------------------------------------------------------------
(* Properties of the hashtable (under SpecHT).  In a step that is not a    *)
(* stuttering step htLast' tells the operation that was performed.         *)

FrozenErrs ==
  {"cannot insert into frozen hash table", "cannot delete from frozen hash table",
   "cannot clear frozen hash table"}

IterationErrs ==
  {"cannot insert into hash table during iteration",
   "cannot delete from hash table during iteration",
   "cannot clear hash table during iteration"}

FrozenStaysFrozen == \A t \in DOMAIN tables : tables[t].frozen => tables'[t].frozen

\* the step applies one of ops to a table that is frozen
MutatesFrozen(ops) == htLast'.op \in ops /\ tables[htLast'.t].frozen

Refused == htLast'.err # NoErr /\ tables'[htLast'.t].m = tables[htLast'.t].m

Live(t) == {i \in DOMAIN kiters : kiters[i].ht = t /\ ~kiters[i].done}

\* C10: insert, delete and clear on an unfrozen table fail with the "during
\* iteration" error (not the frozen-table error) and leave the contents
\* unchanged while the table has a live iterator, and succeed when it has none.
C10_Step ==
  LET t == htLast'.t IN
  (htLast'.op \in {"insert", "delete", "clear"} /\ ~tables[t].frozen) =>
    IF Live(t) # {}
      THEN /\ htLast'.err \in IterationErrs
           /\ htLast'.err \notin FrozenErrs
           /\ tables'[t].m = tables[t].m
      ELSE htLast'.err = NoErr

C10_NoMutationDuringIteration == [][C10_Step]_vars

\* delete has been refused on a table with entries, one iterator released
\* and one still live
C10_Witness ==
  /\ htLast.op = "delete"
  /\ htLast.err = "cannot delete from hash table during iteration"
  /\ ~tables[htLast.t].frozen
  /\ tables[htLast.t].m # EmptyMap
  /\ Live(htLast.t) # {}
  /\ \E i \in DOMAIN kiters : kiters[i].ht = htLast.t /\ kiters[i].done

-----------------------------------------------------------------------------
(* Further properties of the interpreter (under Spec).                      *)

\* C11: in every frame, at every step (inside a catch body entered after an
\* error too), the operand-stack depth sp is at least 0 and at most the
\* MaxStack of the frame's Funcode.
C11_StackDepthBounded ==
  \A d \in DOMAIN callstack :
    0 <= callstack[d].sp /\ callstack[d].sp <= FuncodeOf(callstack[d]).MaxStack

\* a catch body has been entered with an operand left on the stack, and has
\* pushed another one
C11_Witness ==
  /\ callstack # <<>>
  /\ Top.caughtErr # NoErr
  /\ Top.status = "loop"
  /\ Top.sp = FuncodeOf(Top).MaxStack
  /\ Top.sp = 2

\* a step of the dispatch loop of the top frame: it executes the opcode op
Executes(ops) ==
  /\ Running
  /\ ReasonRead = ""
  /\ InCode
  /\ Decode(Top).op \in ops
  /\ callstack' # callstack

\* C12: caughtErr is set on handler entry and executing CATCHJMP, the exit of
\* a catch body, resets it to nil.
C12_Step ==
  Executes({"CATCHJMP"}) => callstack'[Len(callstack)].caughtErr = NoErr

C12_CatchJmpClearsCaughtErr == [][C12_Step]_vars

\* the catch bodies of the frames, by their StartPC
CatchStartPCs(fr) ==
  {FuncodeOf(fr).Catches[i].StartPC : i \in 1..Len(FuncodeOf(fr).Catches)}

\* the step moves the pc of frame d to the start of a catch body
EntersCatch(d) ==
  /\ callstack'[d].fn = callstack[d].fn
  /\ callstack'[d].status = "loop"
  /\ callstack'[d].pc # callstack[d].pc
  /\ callstack'[d].pc \in CatchStartPCs(callstack[d])

\* C13: a catch body is entered only by a step in which an opcode raised an
\* error; no other exit from a covered range (jump, fallthrough, return,
\* cancellation) selects a catch descriptor.
C13_Step ==
  \A d \in DOMAIN callstack \cap DOMAIN callstack' :
    EntersCatch(d) => raised'.valid /\ raised'.err \notin CancelErrs

C13_CatchEnteredOnlyOnError == [][C13_Step]_vars

\* C14: the JMP, CJMP, ITERJMP or RETURN that follows a RUNDEFER leaves
\* runDefer false, whether or not it transfers control.
C14_Step ==
  (Executes({"JMP", "CJMP", "ITERJMP", "RETURN"}) /\ Top.runDefer)
  => ~callstack'[Len(callstack)].runDefer

C14_RunDeferClearedByNext == [][C14_Step]_vars

\* C15: a CALL of a Function whose Funcode belongs to a frame of the call
\* stack fails with "function <name> called recursively" and no frame of the
\* callee runs when Program.Recursion is false, and pushes the callee's frame
\* when it is true.
CallsFuncodeOnStack ==
  /\ Executes({"CALL"})
  /\ Arg = 0
  /\ InStack(Top, Top.sp - 1)
  /\ Stk(Top, Top.sp - 1).t = "function"
  /\ \E d \in DOMAIN callstack :
       callstack[d].fn.v.funcode = Stk(Top, Top.sp - 1).v.funcode

C15_Step ==
  CallsFuncodeOnStack =>
    LET k == Stk(Top, Top.sp - 1).v.funcode
        n == Len(callstack) IN
    IF P.Recursion
      THEN /\ Len(callstack') = n + 1
           /\ callstack'[n + 1].fn.v.funcode = k
           /\ callstack'[n + 1].pc = 0
           /\ ~raised'.valid
      ELSE /\ Len(callstack') = n
           /\ raised'.valid
           /\ raised'.err = "function " \o P.Funcs[k].Name \o " called recursively"

C15_RecursionGuard == [][C15_Step]_vars

\* g's call of f has failed: f is two frames below the call
C15_Witness ==
  /\ prog = 18
  /\ raised.valid
  /\ raised.err = "function f called recursively"
  /\ raised.depth = 3

\* C16: an iteration of the dispatch loop that finds the step budget used up
\* (Steps >= maxSteps) executes no opcode: the thread is cancelled, with
\* reason "too many steps" unless it was cancelled before, the cancellation
\* error is raised and the frame, the globals and the heap are left as they
\* were; every other iteration counts one step.  So at most maxSteps - 1
\* opcodes are dispatched on the thread.
C16_Step ==
  (Running /\ callstack' # callstack) =>
    IF steps + 1 >= MaxSteps
      THEN /\ cancelReason' # ""
           /\ cancelReason = "" => cancelReason' = "too many steps"
           /\ raised'.valid
           /\ raised'.err = "Starlark computation cancelled: " \o cancelReason'
           /\ Len(callstack') = Len(callstack)
           /\ callstack'[Len(callstack)].stack = Top.stack
           /\ callstack'[Len(callstack)].sp = Top.sp
           /\ callstack'[Len(callstack)].locals = Top.locals
           /\ callstack'[Len(callstack)].iterstack = Top.iterstack
           /\ <<globals, heap, iters>>' = <<globals, heap, iters>>
      ELSE steps' = steps + 1

C16_StepsBudget == [][C16_Step]_vars

\* the budget has been used up by a recursion three frames deep or more
C16_Witness ==
  /\ cancelReason = "too many steps"
  /\ raised.valid
  /\ raised.err = "Starlark computation cancelled: too many steps"
  /\ Len(callstack) >= 3

\* the frame that was on top, after the step
TopNext == callstack'[Len(callstack)]

\* C23: the minimal program, run without cancellation, returns None and
\* reports no error.
C23_MinimalReturnsNone ==
  (prog = 20 /\ outcome.status # "running" /\ cancelReason = "")
  => /\ outcome.status = "returned"
     /\ outcome.result = None
     /\ outcome.err = NoErr

\* C24: do defer return 2 end; return 1 end, run without cancellation,
\* returns 2, the value of the RETURN executed last.
C24_LastReturnWins ==
  (prog = 21 /\ outcome.status # "running" /\ cancelReason = "")
  => /\ outcome.status = "returned"
     /\ outcome.result = MkInt(2)

\* C25: in the defer-then-catch program the exit of the catch body is
\* followed by the defer body, the exit of the defer body by the first
\* instruction after the scope with no error in flight, and the run ends
\* without error with c, d and a assigned (d after the catch body set i).
C25_Step ==
  /\ (prog = 22 /\ Executes({"CATCHJMP"})) => TopNext.status = "loop" /\ TopNext.pc = 6
  /\ (prog = 22 /\ Executes({"DEFEREXIT"}))
       => TopNext.status = "loop" /\ TopNext.pc = 32 /\ TopNext.inFlightErr = NoErr

C25_Result ==
  (prog = 22 /\ outcome.status # "running" /\ cancelReason = "")
  => /\ outcome.status = "returned"
     /\ outcome.err = NoErr
     /\ globals = <<MkInt(1), MkInt(1), MkInt(1)>>

C25_CatchThenDeferThenAfter == [][C25_Step /\ C25_Result']_vars

\* C26: CATCHJMP addr with no eligible deferred block continues at addr, or
\* returns None when addr is 0; with an eligible deferred block, the block
\* with the greatest StartPC is entered first.
C26_Step ==
  Executes({"CATCHJMP"}) =>
    LET f == FuncodeOf(Top)
        to == IF Arg = 0 THEN -1 ELSE Arg
        starts == StartPCs(Top.pc, to, f.Defers) \cup StartPCs(Top.pc, to, f.Catches)
    IN IF starts # {}
         THEN TopNext.status = "loop" /\ TopNext.pc = Max(starts)
       ELSE IF Arg # 0
         THEN TopNext.status = "loop" /\ TopNext.pc = Arg
       ELSE TopNext.status = "exit" /\ TopNext.result = None /\ TopNext.inFlightErr = NoErr

C26_CatchJmpTransfers == [][C26_Step]_vars

\* the slot the instruction at the pc of the top frame reads has never
\* been assigned
ReadsUnassigned ==
  LET op == Decode(Top).op
      cellv(x) == IF x.t = "cell" THEN heap[x.v].v ELSE None IN
  CASE op = "LOCAL" -> Arg < Len(Top.locals) /\ IsNil(Top.locals[Arg + 1])
    [] op = "LOCALCELL" -> Arg < Len(Top.locals) /\ IsNil(cellv(Top.locals[Arg + 1]))
    [] op = "FREECELL" ->
         Arg < Len(Top.fn.v.freevars) /\ IsNil(cellv(Top.fn.v.freevars[Arg + 1]))
    [] op = "GLOBAL" -> Arg < Len(globals) /\ IsNil(globals[Arg + 1])
    [] OTHER -> FALSE

\* C27: LOCAL, LOCALCELL, FREECELL or GLOBAL on a slot never assigned raises
\* a 'referenced before assignment' error at that instruction, pushes nothing
\* and leaves the locals and the globals as they were.
C27_Step ==
  (Executes({"LOCAL", "LOCALCELL", "FREECELL", "GLOBAL"}) /\ ReadsUnassigned) =>
    /\ raised'.valid
    /\ raised'.depth = Len(callstack)
    /\ raised'.pc = Top.pc
    /\ raised'.err \in {"local variable x referenced before assignment",
                        "global variable x referenced before assignment"}
    /\ TopNext.sp = Top.sp
    /\ TopNext.stack = Top.stack
    /\ TopNext.locals = Top.locals
    /\ globals' = globals

C27_UnassignedReadFails == [][C27_Step]_vars

\* fn of ProgFreeCell has read its empty free cell
C27_Witness ==
  /\ prog = 26
  /\ raised.valid
  /\ raised.depth = 2
  /\ raised.err = "local variable x referenced before assignment"

\* C28: the error of an opcode without a case is returned by CallInternal
\* and no catch body is entered, whatever the catches cover.
C28_InternalErrorNotCaught ==
  (raised.valid /\ raised.err = "unimplemented: THROW")
  => LET fr == callstack[raised.depth] IN
     /\ fr.status = "exit"
     /\ fr.inFlightErr = raised.err
     /\ fr.caughtErr # raised.err

\* the cells among the locals of a frame
CellsOf(fr) == {fr.locals[i] : i \in {j \in DOMAIN fr.locals : fr.locals[j].t = "cell"}}

\* C36: the frame and the closures MAKEFUNC makes refer to the same cell: the
\* free variables of a new function are cells of the frame (or free cells of
\* its function); SETLOCALCELL writes into the cell the local refers to and
\* FREECELL reads the cell the free variable refers to, so that a write made
\* before or after MAKEFUNC is what the closure reads; a call makes cells
\* that did not exist before.  In ProgCell f1() returns 1 + 10 + 10.
C36_Step ==
  /\ (Executes({"MAKEFUNC"}) /\ TopNext.status = "loop") =>
       LET made == Stk(TopNext, TopNext.sp - 1).v.freevars IN
       \A j \in DOMAIN made :
         made[j] \in CellsOf(Top) \cup {Top.fn.v.freevars[i] : i \in DOMAIN Top.fn.v.freevars}
  /\ (Executes({"SETLOCALCELL"}) /\ TopNext.status = "loop") =>
       /\ TopNext.locals = Top.locals
       /\ heap'[Top.locals[Arg + 1].v].v = Stk(Top, Top.sp - 1)
  /\ (Executes({"FREECELL"}) /\ TopNext.status = "loop") =>
       Stk(TopNext, TopNext.sp - 1) = heap[Top.fn.v.freevars[Arg + 1].v].v
  /\ (Executes({"CALL"}) /\ Len(callstack') > Len(callstack)) =>
       \A c \in CellsOf(callstack'[Len(callstack')]) : c.v > Len(heap)

C36_Result ==
  (prog = 34 /\ outcome.status # "running" /\ cancelReason = "")
  => outcome.status = "returned" /\ outcome.result = MkInt(21)

C36_CellsShared == [][C36_Step /\ C36_Result']_vars

\* f1() has returned what outer(1) left in its cell, after outer(2) was called
C36_Witness ==
  /\ prog = 34
  /\ outcome.status = "returned"
  /\ outcome.result = MkInt(21)
  /\ Len(heap) = 2

\* C35: a SETDICTUNIQ that fails with a "duplicate key" error leaves the dict
\* as it was: the key with the value it had, and the same length.
C35_Step ==
  (/\ Executes({"SETDICTUNIQ"})
   /\ InStack(Top, Top.sp - 3)
   /\ Stk(Top, Top.sp - 3).t = "dict"
   /\ raised'.valid
   /\ raised'.err = "duplicate key: " \o Itoa(Stk(Top, Top.sp - 2).v))
  => heap'[Stk(Top, Top.sp - 3).v] = heap[Stk(Top, Top.sp - 3).v]

C35_DuplicateKeyLeavesDict == [][C35_Step]_vars

\* C34: the iterator UNPACK obtains from a list has Done called exactly once
\* whether the list has the values wanted, too few or too many, so that the
\* iterator count of the list is after UNPACK what it was before.
C34_Step ==
  (Executes({"UNPACK"}) /\ Top.sp > 0 /\ Stk(Top, Top.sp - 1).t = "list") =>
    /\ Len(iters') = Len(iters) + 1
    /\ iters'[Len(iters')].done = 1
    /\ heap'[Stk(Top, Top.sp - 1).v].itercount = heap[Stk(Top, Top.sp - 1).v].itercount

C34_UnpackReleasesIterator == [][C34_Step]_vars

\* C33: DEFEREXIT at offset p, the pending action being the transfer last
\* made with runDefer set: if a descriptor covers p and not the target of
\* the action, control goes to the greatest StartPC of those and the
\* deferred stack is as it was; otherwise the action is performed: a jump
\* continues at its address, a return leaves the function.
C33_Step ==
  (Executes({"DEFEREXIT"}) /\ Top.xfer.set) =>
    LET f == FuncodeOf(Top)
        starts == StartPCs(Top.pc, Top.xfer.to, f.Defers)
                    \cup StartPCs(Top.pc, Top.xfer.to, f.Catches)
    IN IF starts # {}
         THEN /\ TopNext.status = "loop"
              /\ TopNext.pc = Max(starts)
              /\ TopNext.deferredStack = Top.deferredStack
       ELSE IF Top.xfer.to # -1
         THEN TopNext.status = "loop" /\ TopNext.pc = Top.xfer.to
       ELSE TopNext.status = "exit"

C33_DeferExitPerformsPending == [][C33_Step]_vars

-----------------------------------------------------------------------------
(* Properties of the assembler (under SpecAsm)                              *)

\* the byte offsets at which an instruction of the code bytes starts
RECURSIVE InsnStartsFrom(_, _)
InsnStartsFrom(bytes, pc) ==
  IF pc >= Len(bytes) THEN {}
  ELSE IF bytes[pc + 1] \in ArgOps
    THEN LET last == CHOOSE k \in (pc + 1)..(Len(bytes) - 1) :
                       /\ bytes[k + 1] < 128
                       /\ \A j \in (pc + 1)..(k - 1) : bytes[j + 1] >= 128
         IN {pc} \cup InsnStartsFrom(bytes, last + 1)
  ELSE {pc} \cup InsnStartsFrom(bytes, pc + 1)

\* the functions of a program
FuncodesOf(p) ==
  (IF p.Toplevel.isnil THEN {} ELSE {p.Toplevel})
    \cup {p.Functions[i] : i \in DOMAIN p.Functions}

\* the catch and defer descriptors of fn are valid
ValidDescriptors(fn) ==
  \A ds \in {fn.Catches, fn.Defers} : \A i \in DOMAIN ds :
    /\ ds[i].PC0 < ds[i].PC1
    /\ {ds[i].PC0, ds[i].PC1, ds[i].StartPC} \subseteq InsnStartsFrom(fn.Code, 0)

WellFormed(p) ==
  /\ ~p.isnil
  /\ ~p.Toplevel.isnil
  /\ \A fn \in FuncodesOf(p) : ValidDescriptors(fn)

\* C17: a well-formed program is disassembled without a failure, and the
\* text assembles without an error to a program equal to it.
C17_AsmDasmRoundTrip ==
  asm.phase = "dasm" /\ WellFormed(asm.p) =>
    /\ asm.panic = ""
    /\ asm.dasmErr = NoErr
    /\ Asm(asm.b).err = NoErr
    /\ Asm(asm.b).p = asm.p

\* C18: when Asm returns an error, the program it returns is nil.
C18_ErrorMeansNilProgram ==
  asm.phase = "assembled" /\ asm.err # NoErr => asm.p.isnil

\* the section lines of a text, defers: included, in the order of the text
RECURSIVE SectionLines(_)
SectionLines(text) ==
  IF text = <<>> THEN <<>>
  ELSE (IF Head(text) # <<>> /\ Head(text)[1] \in sections \cup {"defers:"}
          THEN <<Head(text)[1]>> ELSE <<>>) \o SectionLines(Tail(text))

\* the fixed order: program:, then the optional sections of the program,
\* then functions, each with its optional sections and code:
FixedOrder(secs) ==
  LET order == <<"program:", "loads:", "names:", "globals:", "constants:",
                 "function:", "locals:", "cells:", "freevars:", "catches:",
                 "defers:", "code:">>
      Rank(x) == CHOOSE r \in DOMAIN order : order[r] = x
      Follows(x, y) ==
        IF x = "code:" THEN y = "function:"
        ELSE IF Rank(x) < Rank("function:")
          THEN Rank(x) < Rank(y) /\ Rank(y) <= Rank("function:")
        ELSE Rank(x) < Rank(y)
  IN /\ secs # <<>>
     /\ Head(secs) = "program:"
     /\ secs[Len(secs)] = "code:"
     /\ \A i \in 1..(Len(secs) - 1) : Follows(secs[i], secs[i + 1])

\* C19: Asm returns no error only for a text whose sections are in the fixed
\* order.
C19_SucceedsOnlyInFixedOrder ==
  asm.phase = "assembled" /\ asm.err = NoErr => FixedOrder(SectionLines(asm.text))

\* C20: in a program that Asm returns without an error, every catch and defer
\* descriptor has PC0 < PC1, and PC0, PC1 and StartPC at the start of an
\* instruction of the function.
C20_DescriptorsValidated ==
  asm.phase = "assembled" /\ asm.err = NoErr =>
    \A fn \in FuncodesOf(asm.p) : ValidDescriptors(fn)

\* the arguments of the jump instructions of the code bytes
JumpArgs(bytes) ==
  {DecodeArg(bytes, pc + 1, 0).arg :
     pc \in {q \in InsnStartsFrom(bytes, 0) : bytes[q + 1] \in {"JMP", "CJMP", "ITERJMP"}}}

\* C21: in a program that Asm returns without an error, the argument of
\* every JMP, CJMP and ITERJMP is the start of an instruction of the function.
C21_JumpTargetsValidated ==
  asm.phase = "assembled" /\ asm.err = NoErr =>
    \A fn \in FuncodesOf(asm.p) : JumpArgs(fn.Code) \subseteq InsnStartsFrom(fn.Code, 0)

\* the sections of the text up to its first line i that names a cell that
\* is no local of the function, when the text has one: here the name "z"
UpToBadCell(text) ==
  LET at == {i \in 2..Len(text) : text[i] = <<"z">> /\ text[i - 1] = <<"cells:">>}
  IN IF at = {} THEN <<>>
     ELSE SectionLines(SubSeq(text, 1, CHOOSE i \in at : \A j \in at : i <= j))

\* C22: in a program that Asm returns without an error every element of
\* Cells is the index of a local of the function; a text with a cells: entry
\* that names no local is rejected, with the error 'invalid cell' when the
\* text is in order up to that entry.
C22_CellsIndexLocals ==
  asm.phase = "assembled" =>
    /\ asm.err = NoErr =>
         \A fn \in FuncodesOf(asm.p) : \A i \in DOMAIN fn.Cells :
           fn.Cells[i] \in 0..(Len(fn.Locals) - 1)
    /\ UpToBadCell(asm.text) # <<>> => asm.err # NoErr
    /\ UpToBadCell(asm.text) \in
         {<<"program:", "function:", "cells:">>,
          <<"program:", "function:", "locals:", "cells:">>,
          <<"program:", "loads:", "function:", "cells:">>,
          <<"program:", "loads:", "function:", "locals:", "cells:">>}
         => asm.err = "invalid cell: \"z\" is not an existing local"

C22_Witness ==
  /\ asm.phase = "assembled"
  /\ asm.err = NoErr
  /\ asm.p.Toplevel.Locals = <<"x">>
  /\ asm.p.Toplevel.Cells = <<0>>


-----------------------------------------------------------------------------
(* Properties of Int (under SpecInt).                                      *)

\* the sign of an int of either width
Sign(r) ==
  IF r[1] >= Limb \div 2 THEN -1
  ELSE IF \A k \in DOMAIN r : r[k] = 0 THEN 0 ELSE 1

\* C29: for two Ints i and j, i.Cmp(j) returns without error a negative
\* number iff i < j, zero iff i = j and a positive number iff i > j, also when
\* i - j does not fit the machine integer.
C29_CmpSignIsOrder ==
  num.phase = "cmp" /\ num.y.t = "int" =>
    /\ num.err = NoErr
    /\ num.panic = ""
    /\ (Sign(num.v) < 0 <=> Less64(num.x.v, num.y.v))
    /\ (Sign(num.v) = 0 <=> num.x.v = num.y.v)
    /\ (Sign(num.v) > 0 <=> Less64(num.y.v, num.x.v))

\* x lies in [-2^31, 2^31-1]: its upper 33 bits are all equal
InInt32(l) ==
  \/ l[1] = 0 /\ l[2] = 0 /\ l[3] < Limb \div 2
  \/ l[1] = Limb - 1 /\ l[2] = Limb - 1 /\ l[3] >= Limb \div 2

\* the int64 with the value of an int of either width
SignExtend(r) ==
  IF Len(r) = 4 THEN r
  ELSE IF r[1] >= Limb \div 2 THEN <<Limb - 1, Limb - 1>> \o r ELSE <<0, 0>> \o r

\* C30: AsInt32(x) returns (v, nil) with v equal to x exactly when x is an Int
\* in [-2^31, 2^31-1]; for an Int outside the range the error is "<x> out of
\* range" and for a non-Int "got <type>, want int".
C30_AsInt32ExactlyInRange ==
  num.phase = "asint32" =>
    IF num.x.t = "int" /\ InInt32(num.x.v)
    THEN num.err = NoErr /\ SignExtend(num.v) = num.x.v
    ELSE IF num.x.t = "int"
    THEN num.err = FormatInt(num.x.v) \o " out of range"
    ELSE num.err = "got " \o num.x.t \o ", want int"

\* AsInt32 has rejected 2^31, has accepted -2^31 elsewhere
C30_Witness ==
  /\ num.phase = "asint32"
  /\ num.x.t = "int"
  /\ \/ num.err = "2147483648 out of range"
     \/ num.err = "-9223372036854775808 out of range"


-----------------------------------------------------------------------------
(* Properties of freeze (under SpecFreeze).                                *)

\* the tables held, directly, by one of the tables ts
Held(tabs, ts) ==
  ts \cup {u \in 1..Len(tabs) :
             \E t \in ts : \E k \in DOMAIN tabs[t].m : tabs[t].m[k] = DictRef(u)}

\* the tables reachable from table t through values
RECURSIVE ReachableIn(_, _, _)
ReachableIn(tabs, ts, n) == IF n = 0 THEN ts ELSE ReachableIn(tabs, Held(tabs, ts), n - 1)
Reachable(tabs, t) == ReachableIn(tabs, {t}, Len(tabs))

\* a table that holds itself, directly or through other tables
Cyclic(tabs, t) ==
  \E k \in DOMAIN tabs[t].m :
    tabs[t].m[k] < 0 /\ t \in Reachable(tabs, 0 - tabs[t].m[k])

C31_Step ==
  htLast'.op = "freeze" =>
    /\ htLast'.err = NoErr
    /\ tables[htLast'.t].frozen => tables' = tables
    /\ \A u \in Reachable(tables, htLast'.t) : tables'[u].frozen
    /\ \A u \in 1..Len(tables) : tables'[u].m = tables[u].m

\* C31: freeze returns on every table, also on one that holds itself through
\* its values; freezing a frozen table changes nothing; after freeze the
\* table and every value it held, and what those hold, are frozen.
C31_FreezeDeepAndTerminates == [][C31_Step]_vars

\* a table that holds itself through another table has been frozen, with
\* all it holds
C31_Witness ==
  /\ htLast.op = "freeze"
  /\ Cyclic(tables, htLast.t)
  /\ \E k \in DOMAIN tables[htLast.t].m :
       tables[htLast.t].m[k] < 0 /\ tables[htLast.t].m[k] # DictRef(htLast.t)
  /\ \A u \in Reachable(tables, htLast.t) : tables[u].frozen


-----------------------------------------------------------------------------
(* Properties of hasDeferredExecution (under SpecDefer).                   *)

\* the descriptors given, of both kinds
Given == {dex.defr[i] : i \in DOMAIN dex.defr} \cup {dex.catch[i] : i \in DOMAIN dex.catch}

\* d covers from and does not cover to
CoversOnlyFrom(d) ==
  /\ d.PC0 <= dex.from /\ dex.from <= d.PC1
  /\ ~(d.PC0 <= dex.to /\ dex.to <= d.PC1)

\* C32: hasDeferredExecution returns true iff some descriptor of defr or
\* catch covers from and not to; then *pc is the greatest StartPC of those
\* descriptors, 0 included; when it returns false *pc is as it was.
C32_GreatestEligibleStartPC ==
  dex.phase = "returned" =>
    /\ dex.found <=> \E d \in Given : CoversOnlyFrom(d)
    /\ dex.found =>
         /\ \E d \in Given : CoversOnlyFrom(d) /\ d.StartPC = dex.pc
         /\ \A d \in Given : CoversOnlyFrom(d) => d.StartPC <= dex.pc
    /\ ~dex.found => dex.pc = dex.from + 1

\* the eligible bodies all start at offset 0, and that offset was returned
C32_Witness ==
  /\ dex.phase = "returned"
  /\ dex.found
  /\ dex.pc = 0
  /\ \E d \in Given : CoversOnlyFrom(d)

-----------------------------------------------------------------------------
(* The loader of the REPL (repl.MakeLoadOptions).  The cache maps a module  *)
(* to no entry, to the nil placeholder or to an entry; the globals of an    *)
(* execution are told apart by the number of the execution.  Executing a    *)
(* module (starlark.ExecFileOptions) may call the loader any number of      *)
(* times for any module, whatever the calls return, and ends with globals   *)
(* and an error or none.                                                    *)

Modules == 1..MaxModules

NoEntry == [state |-> "none", globals |-> 0, err |-> NoErr]
NilEntry == [state |-> "nil", globals |-> 0, err |-> NoErr]
Entry(g, err) == [state |-> "entry", globals |-> g, err |-> err]

\* e, ok := cache[module]
Lookup(cache, module) ==
  [e |-> IF cache[module].state = "entry" THEN cache[module] ELSE NilEntry,
   ok |-> cache[module].state # "none"]

\* a loader that leaves no placeholder
PlaceholderNone(cache, module) == cache

\* cache[module] = nil
Placeholder(cache, module) == [cache EXCEPT ![module] = NilEntry]

\* what the loader returned, and how
Returned(how, module, g, err) ==
  [how |-> how, module |-> module, globals |-> g, err |-> err]

\* the executions so far
RECURSIVE Sum(_, _)
Sum(f, n) == IF n = 0 THEN 0 ELSE f[n] + Sum(f, n - 1)

\* the loader is called, by the host or by the module being executed, for
\* a module that has an entry
LoadCached ==
  \E module \in Modules :
    LET l == Lookup(ld.cache, module) IN
    /\ ld.phase = "run"
    /\ ld.n < MaxLoads
    /\ l.e # NilEntry
    /\ ld' = [ld EXCEPT !.n = @ + 1,
                        !.last = Returned("cached", module, l.e.globals, l.e.err)]
    /\ UNCHANGED <<vmvars, htvars, asmvars, numvars, dexvars>>

\* ... for a module that has the placeholder
LoadCycle ==
  \E module \in Modules :
    LET l == Lookup(ld.cache, module) IN
    /\ ld.phase = "run"
    /\ ld.n < MaxLoads
    /\ l.e = NilEntry
    /\ l.ok
    /\ ld' = [ld EXCEPT !.n = @ + 1,
                        !.last = Returned("cycle", module, 0, "cycle in load graph")]
    /\ UNCHANGED <<vmvars, htvars, asmvars, numvars, dexvars>>

\* ... for a module that has nothing: the placeholder is stored and
\* ExecFileOptions starts
LoadExec ==
  \E module \in Modules :
    LET l == Lookup(ld.cache, module) IN
    /\ ld.phase = "run"
    /\ ld.n < MaxLoads
    /\ l.e = NilEntry
    /\ ~l.ok
    /\ ld' = [ld EXCEPT !.n = @ + 1,
                        !.cache = Placeholder(@, module),
                        !.stack = Append(@, [module |-> module,
                                             id |-> Sum(ld.execs, MaxModules) + 1]),
                        !.execs[module] = @ + 1,
                        !.last = Returned("exec", module, 0, NoErr)]
    /\ UNCHANGED <<vmvars, htvars, asmvars, numvars, dexvars>>

\* ExecFileOptions returns: the entry is stored and its fields returned
LoadExecReturn ==
  \E err \in {NoErr, "exec error"} :
    /\ ld.phase = "run"
    /\ ld.stack # <<>>
    /\ LET top == ld.stack[Len(ld.stack)]
           e == Entry(top.id, err) IN
       ld' = [ld EXCEPT !.cache[top.module] = e,
                        !.stack = SubSeq(@, 1, Len(@) - 1),
                        !.first[top.module] = IF @ = NoEntry THEN e ELSE @,
                        !.last = Returned("executed", top.module, e.globals, e.err)]
    /\ UNCHANGED <<vmvars, htvars, asmvars, numvars, dexvars>>

\* cache = make(map[string]*entry)
InitLoad ==
  /\ IdleVM
  /\ IdleHT
  /\ IdleAsm
  /\ IdleNum
  /\ IdleDex
  /\ ld = [phase |-> "run",
           cache |-> [m \in Modules |-> NoEntry],
           stack |-> <<>>,
           execs |-> [m \in Modules |-> 0],
           first |-> [m \in Modules |-> NoEntry],
           last |-> Returned("none", 0, 0, NoErr),
           n |-> 0]

NextLoad == LoadCached \/ LoadCycle \/ LoadExec \/ LoadExecReturn

SpecLoad == InitLoad /\ [][NextLoad]_vars

-----------------------------------------------------------------------------
(* The deferred stack (under Spec).                                         *)

-----------------------------------------------------------------------------
(* Termination after cancellation (under FairSpec).                         *)

\* C38: once cancelReason is set (by Cancel or by the step budget), every
\* CallInternal of the thread returns: the call stack becomes empty.
C38_CancelledCallsReturn == (cancelReason # "") ~> (callstack = <<>>)

-----------------------------------------------------------------------------
(* Properties of itercount (under SpecHT).                                  *)

\* the iterators over table t created while it was unfrozen
Counted(t) == {i \in DOMAIN kiters : kiters[i].ht = t /\ kiters[i].unfrozen}

\* C37: whatever the order of iterate, Done (once per iterator) and freeze,
\* itercount does not wrap below zero: it is never more than the number of
\* iterators created while the table was unfrozen; and while the table is
\* unfrozen it is the number of those on which Done has not been called.
C37_ItercountIsLiveIterators ==
  \A t \in DOMAIN tables :
    /\ tables[t].itercount <= Cardinality(Counted(t))
    /\ ~tables[t].frozen => tables[t].itercount = Cardinality(Counted(t) \cap Live(t))

\* an iterator made before freeze was released after it, one made after
\* freeze is still live, and the count of the frozen table was left alone
C37_Witness ==
  /\ htLast.op = "Done"
  /\ tables[htLast.t].frozen
  /\ tables[htLast.t].itercount = 1
  /\ \E i \in Counted(htLast.t) : kiters[i].done
  /\ \E i \in Live(htLast.t) : ~kiters[i].unfrozen

-----------------------------------------------------------------------------
(* Properties of the loader (under SpecLoad).                               *)

\* the modules whose load is in progress
InProgress == {ld.stack[i].module : i \in DOMAIN ld.stack}

\* C40: a module is executed at most once; a call of the loader for a
\* module whose load is in progress, directly or through other modules,
\* returns the error "cycle in load graph" and executes nothing; a call for
\* a module whose load has finished executes nothing and returns the
\* globals and the error the first execution ended with.
C40_Step ==
  /\ \A m \in Modules : ld'.execs[m] <= 1
  /\ ld'.n # ld.n =>
       LET m == ld'.last.module IN
       /\ m \in InProgress =>
            /\ ld'.last.how = "cycle"
            /\ ld'.last.err = "cycle in load graph"
            /\ ld'.execs = ld.execs
            /\ ld'.stack = ld.stack
       /\ ld.first[m] # NoEntry =>
            /\ ld'.last.how = "cached"
            /\ ld'.last.globals = ld.first[m].globals
            /\ ld'.last.err = ld.first[m].err
            /\ ld'.execs = ld.execs
            /\ ld'.stack = ld.stack

C40_EachModuleOnce == [][C40_Step]_vars

\* module 1 loads module 2; module 2 asks for module 1 and gets the cycle
\* error, fails, and a later request for module 2 returns that failure
C40_Witness ==
  /\ ld.phase = "run"
  /\ ld.last.how = "cached"
  /\ ld.last.module = 2
  /\ ld.last.err = "exec error"
  /\ ld.last.globals = 2
  /\ ld.stack = <<[module |-> 1, id |-> 1]>>
  /\ ld.cache[1] = NilEntry

====
